---- MODULE Spec2Model ----
(***************************************************************************)
(* ChatFlow client: the zustand chat store and the ChatProvider handlers   *)
(* that feed it (stores/chatStore.ts, contexts/ChatContext.tsx), and the   *)
(* SocketAPI connection object (api/socket.ts).                            *)
(*                                                                         *)
(* The specifications of the module:                                       *)
(*   SpecStore  inbound chat events applied to the message ledger;         *)
(*   SpecConn   connect / connectToChat / disconnect, the transport's      *)
(*              events, and the send intent;                               *)
(*   SpecLife   SocketProvider's published state, the heartbeat and the    *)
(*              failed attempts of the main channel;                       *)
(*   SpecAuth   AuthProvider: authenticate and the server's answers;       *)
(*   SpecIntent the hooks useChat and useAuth with their validation;       *)
(*   SpecRoomIntent the createRoom intent of useChat;                      *)
(*   SpecRoom   the per-room ChatProvider: its reducer, joinRoom and       *)
(*              leaveRoom, and inbound messages;                           *)
(*   SpecPresence the presence list of the user store;                     *)
(*   SpecRemoteTyping the typing list of the chat store;                   *)
(*   SpecTyping the message input, the typing intents of useChat and       *)
(*              their auto-stop timer;                                     *)
(*   SpecDebounce the debounced typing:status of the per-room provider;    *)
(*   SpecChatIntent the intents of ChatProvider that are guarded by the    *)
(*              user;                                                      *)
(*   SpecListener the handlers the ChatProvider effect keeps in SocketAPI; *)
(*   SpecPaging the page requests of the per-room ChatContainer;           *)
(*   SpecHistory loadMessages of the per-room provider, called for any     *)
(*              room and page.                                             *)
(* The server and the socket.io transport are the environment.             *)
(***************************************************************************)
EXTENDS Integers, Sequences, FiniteSets, TLC

VARIABLES
    messages,        \* chatStore state.messages: Message[]
    closureMessages, \* the `messages` value captured by the handlers the
                     \* ChatProvider effect registered when it last ran
    listening,       \* the ChatProvider effect has its handlers registered
    authState,       \* AuthProvider reducer state
    srvMsgs,         \* server: ids of the messages that exist
    srvRead,         \* server: message id -> users that have read it
    srvDelivered,    \* server: message id -> users it was delivered to
    nEvents,         \* number of ledger-growing events applied so far
    transports,      \* every socket io() has returned, in creation order
    socket,          \* SocketAPI.socket: index into transports, 0 for null
    chatSocket,      \* SocketAPI.chatSocket: index into transports, 0 for null
    connectionState, \* SocketAPI.connectionState
    heartbeatInterval, \* SocketAPI.heartbeatInterval is set
    mainOut,         \* the event last put on the wire of the main channel
    chatOut,         \* events put on the wire of the chat channel, in order
    sendCalls,       \* sendMessage calls that passed the user guard
    acked,           \* message_sent acknowledgments the server has sent
    published,       \* SocketProvider: its connectionState (useState)
    missed,          \* heartbeat intervals elapsed since the main channel
                     \* last received anything
    attempts,        \* connection attempts that failed since the last
                     \* connect() call or successful connection
    authPending,     \* server: an authenticate request awaits its answer
    chatError,       \* chatStore state.error
    uncaught,        \* a call has thrown a TypeError that nothing caught
    createOut,       \* room names carried by the create_room events put on
                     \* the wire of the chat channel
    chatState,       \* per-room ChatProvider: its reducer state
    roomOut,         \* per-room ChatProvider: its last socket.emit call
    joinCall,        \* the last joinRoom / leaveRoom call: the active room
                     \* before it, and what became of the request
    lastInbound,     \* the room of the message:new applied last, and whether
                     \* that room was the active one
    onlineUsers,     \* userStore state.onlineUsers: User[]
    srvOnline,       \* server: the users that are online
    srvClock,        \* server: its clock, which stamps last_seen
    typingUsers,     \* chatStore state.typingUsers: TypingIndicator[]
    typingAge,       \* (user id, room id) -> the time since the last
                     \* user_typing received for the pair, in milliseconds
    offlineSince,    \* user id -> the last_seen carried by the user_offline
                     \* received for it while it was in onlineUsers, since
                     \* the last snapshot or user_online (0: none)
    mounted,         \* ChatContainer (with its useChat and MessageInput) is
                     \* mounted
    selectedRoom,    \* ChatContainer: selectedRoom.room_id
    messageText,     \* ChatContainer: messageText, the value of the input
    isTyping,        \* MessageInput: isTyping (useState)
    typingTimeoutRef, \* useChat: the pending auto-stop timer, as the room it
                     \* was set for and the milliseconds left
    typingOnWire,    \* room id -> the typing event put on the wire last for
                     \* the room was typing_start
    keyAge,          \* the time since the last change of the input, in
                     \* milliseconds
    debounced,       \* per-room ChatProvider: the pending call of
                     \* debouncedEmitTyping, with the milliseconds left
    typingStatus,    \* per-room ChatProvider: the typing:status emitted last
    sinceStart,      \* the time since the last typing:status with isTyping
                     \* true was emitted, in milliseconds
    authToken,       \* localStorage holds an authToken
    providerMounted, \* ChatProvider is mounted
    cleanupPending,  \* the last run of the ChatProvider effect returned its
                     \* cleanup function
    eventListeners,  \* SocketAPI.eventListeners: event -> the number of
                     \* handlers of ChatProvider it holds
    attached,        \* transport -> event -> the number of handlers of
                     \* ChatProvider attached to that socket
    isLoading,       \* per-room ChatContainer: isLoading (useState)
    hasMore,         \* per-room ChatContainer: hasMore (useState)
    fetches,         \* the loadMessages calls that await their response, in
                     \* the order they were made
    nFetches,        \* the number of loadMessages calls made so far
    loadDeps,        \* per-room ChatContainer: the activeRoom and the
                     \* state.messages (loadMessages changes with it) its
                     \* initial load effect last ran with
    loadedPage,      \* the page of the response applied last for a call of
                     \* ChatContainer, 0 before the first
    startRequested   \* the rooms handleTyping was called for since the last
                     \* typing:status with isTyping true was emitted for them

storeVars == <<messages, closureMessages, listening, authState,
               srvMsgs, srvRead, srvDelivered, nEvents>>

connVars == <<transports, socket, chatSocket, connectionState,
              heartbeatInterval, mainOut, chatOut, sendCalls, acked>>

lifeVars == <<published, missed, attempts>>

intentVars == <<authPending, chatError, uncaught>>

providerVars == <<chatState, roomOut, joinCall, lastInbound>>

roomVars == <<createOut, providerVars>>

presenceVars == <<onlineUsers, srvOnline, srvClock, offlineSince>>

remoteTypingVars == <<typingUsers, typingAge>>

localTypingVars == <<mounted, selectedRoom, messageText, isTyping,
                     typingTimeoutRef, typingOnWire, keyAge>>

debounceVars == <<debounced, typingStatus, sinceStart, startRequested>>

\* the state behind the message input: the typing hook and the debounce
inputVars == <<localTypingVars, debounceVars>>

sessionVars == <<authToken>>

listenerVars == <<providerMounted, cleanupPending, eventListeners, attached>>

historyVars == <<isLoading, hasMore, fetches, nFetches, loadDeps, loadedPage>>

\* the state of the providers and hooks for rooms, presence and typing
shownVars == <<roomVars, presenceVars, remoteTypingVars, inputVars, listenerVars,
               historyVars>>

viewVars == <<shownVars, sessionVars>>

vars == <<messages, closureMessages, listening, authState,
          srvMsgs, srvRead, srvDelivered, nEvents,
          transports, socket, chatSocket, connectionState,
          heartbeatInterval, mainOut, chatOut, sendCalls, acked,
          published, missed, attempts, authPending, chatError, uncaught,
          createOut, chatState, roomOut, joinCall, lastInbound,
          onlineUsers, srvOnline, srvClock, offlineSince,
          typingUsers, typingAge,
          mounted, selectedRoom, messageText, isTyping, typingTimeoutRef,
          typingOnWire, keyAge,
          debounced, typingStatus, sinceStart, startRequested, authToken,
          providerMounted, cleanupPending, eventListeners, attached,
          isLoading, hasMore, fetches, nFetches, loadDeps, loadedPage>>

-----------------------------------------------------------------------------
(* Bounds and value sets *)

MaxEvents == 5
MaxTransports == 3
MaxSends == 2
MaxMissed == 2
MaxCreates == 2
MaxRoomMessages == 2
MaxClock == 5
MaxWire == 5
MaxFetches == 2
MaxPage == 2
PageSize == 1

MessageIds == {"m1", "m2", "m3"}
UserIds == {"u1", "u2"}

\* a fixed listing of the user ids, used where the server serialises a set
UserOrder == <<"u1", "u2">>

\* the server stamps each message once; the stamp is part of the message.
\* m2 and m3 carry the same stamp, so that their order is decided by the id
TimestampOf(id) == IF id = "m1" THEN 1 ELSE 2

NoUser == "null"

\* the user of this client
LocalUser == "u1"

-----------------------------------------------------------------------------
(* Sequence helpers *)

Range(s) == {s[i] : i \in 1..Len(s)}

SetToSeq(S) == SelectSeq(UserOrder, LAMBDA u : u \in S)

\* Array.prototype.find on message_id: the first match, or "undefined"
FindIndex(msgs, id) ==
    IF \E i \in 1..Len(msgs) : msgs[i].message_id = id
    THEN CHOOSE i \in 1..Len(msgs) :
            /\ msgs[i].message_id = id
            /\ \A j \in 1..(i - 1) : msgs[j].message_id # id
    ELSE 0

\* { ...msg, ...updates }
Spread(msg, updates) ==
    [f \in DOMAIN msg |-> IF f \in DOMAIN updates THEN updates[f] ELSE msg[f]]

-----------------------------------------------------------------------------
(* stores/chatStore.ts *)

setMessages(state, msgs) == msgs

addMessage(state, message) == <<message>> \o state

\* updateMessage without the test on message_id
updateMessageEveryEntry(state, messageId, updates) ==
    [i \in 1..Len(state) |-> Spread(state[i], updates)]
updateMessage(state, messageId, updates) ==
    [i \in 1..Len(state) |->
        IF state[i].message_id = messageId
        THEN Spread(state[i], updates)
        ELSE state[i]]

-----------------------------------------------------------------------------
(* AuthProvider reducer (contexts/AuthContext) *)

authInitialState ==
    [user |-> NoUser, isAuthenticated |-> FALSE, isLoading |-> FALSE, error |-> "null"]

\* authReducer with a SET_ERROR case that stores the error and leaves
\* isLoading as it was
authReducerErrorKeepsLoading(state, action) ==
    CASE action.type = "SET_LOADING" ->
            [state EXCEPT !.isLoading = action.payload]
      [] action.type = "SET_USER" ->
            [state EXCEPT !.user = action.payload, !.isAuthenticated = TRUE,
                          !.error = "null", !.isLoading = FALSE]
      [] action.type = "SET_ERROR" ->
            [state EXCEPT !.error = action.payload]
      [] action.type = "CLEAR_ERROR" ->
            [state EXCEPT !.error = "null"]
      [] action.type = "LOGOUT" ->
            [state EXCEPT !.user = NoUser, !.isAuthenticated = FALSE,
                          !.error = "null", !.isLoading = FALSE]
      [] OTHER -> state

\* authReducer with a LOGOUT case that leaves the user in place
authReducerLogoutKeepsUser(state, action) ==
    CASE action.type = "SET_LOADING" ->
            [state EXCEPT !.isLoading = action.payload]
      [] action.type = "SET_USER" ->
            [state EXCEPT !.user = action.payload, !.isAuthenticated = TRUE,
                          !.error = "null", !.isLoading = FALSE]
      [] action.type = "SET_ERROR" ->
            [state EXCEPT !.error = action.payload, !.isLoading = FALSE]
      [] action.type = "CLEAR_ERROR" ->
            [state EXCEPT !.error = "null"]
      [] action.type = "LOGOUT" ->
            [state EXCEPT !.isAuthenticated = FALSE,
                          !.error = "null", !.isLoading = FALSE]
      [] OTHER -> state

authReducer(state, action) ==
    CASE action.type = "SET_LOADING" ->
            [state EXCEPT !.isLoading = action.payload]
      [] action.type = "SET_USER" ->
            [state EXCEPT !.user = action.payload, !.isAuthenticated = TRUE,
                          !.error = "null", !.isLoading = FALSE]
      [] action.type = "SET_ERROR" ->
            [state EXCEPT !.error = action.payload, !.isLoading = FALSE]
      [] action.type = "CLEAR_ERROR" ->
            [state EXCEPT !.error = "null"]
      [] action.type = "LOGOUT" ->
            [state EXCEPT !.user = NoUser, !.isAuthenticated = FALSE,
                          !.error = "null", !.isLoading = FALSE]
      [] OTHER -> state

-----------------------------------------------------------------------------
(* ChatProvider (contexts/ChatContext.tsx) *)

\* useSocket() spreads connectionState and then the functions isConnected and
\* isConnecting over it, so the `isConnected` ChatProvider destructures is the
\* function: always truthy, and a new one on every SocketProvider render.
SocketContextIsConnected == TRUE

\* messages.find(m => m.message_id === id)?.read_by || []
ClosureReadBy(closure, id) ==
    IF FindIndex(closure, id) = 0 THEN <<>> ELSE closure[FindIndex(closure, id)].read_by

\* messages.find(m => m.message_id === id)?.delivered_to || []
ClosureDeliveredTo(closure, id) ==
    IF FindIndex(closure, id) = 0 THEN <<>>
    ELSE closure[FindIndex(closure, id)].delivered_to

handleNewMessage(state, message) == addMessage(state, message)

handleMessageRead(state, closure, data) ==
    updateMessage(state, data.message_id,
        [read_by |-> Append(ClosureReadBy(closure, data.message_id), data.user_id)])

handleMessageDelivered(state, closure, data) ==
    updateMessage(state, data.message_id,
        [delivered_to |->
            Append(ClosureDeliveredTo(closure, data.message_id), data.user_id)])

handleRoomMessages(state, data) == setMessages(state, data.messages)

\* The effect body with its dependency list [isAuthenticated, isConnected, user]:
\* when it runs it drops the handlers of the previous run and, if the guard
\* passes, registers new ones that close over the `messages` of this render.
ChatProviderEffect(auth) ==
    IF auth.isAuthenticated /\ SocketContextIsConnected
    THEN /\ listening' = TRUE
         /\ closureMessages' = messages
    ELSE /\ listening' = FALSE
         /\ closureMessages' = <<>>

-----------------------------------------------------------------------------
(* The server: what it stores and what it sends *)

\* new_message carries the message as it was created: no receipts yet
NewMessagePayload(id) ==
    [message_id |-> id, timestamp |-> TimestampOf(id),
     read_by |-> <<>>, delivered_to |-> <<>>]

\* a message of the history, with the receipts the server holds for it
HistoryMessage(id) ==
    [message_id |-> id, timestamp |-> TimestampOf(id),
     read_by |-> SetToSeq(srvRead[id]), delivered_to |-> SetToSeq(srvDelivered[id])]

\* the message ids in ascending (timestamp, id) order
MessageOrder == <<"m1", "m2", "m3">>

\* room_messages: the history of the room, oldest first
RoomMessagesPayload ==
    LET ids == SelectSeq(MessageOrder, LAMBDA id : id \in srvMsgs)
    IN  [messages |-> [i \in 1..Len(ids) |-> HistoryMessage(ids[i])]]

-----------------------------------------------------------------------------
(* The per-room ChatProvider (part_008): its reducer *)

Rooms == {"r1", "r2"}

\* the room each message belongs to (message.roomId)
RoomOf(id) == IF id = "m2" THEN "r2" ELSE "r1"

\* an entry of unreadCounts that was never written reads as undefined
Absent == -1

\* x || 0
OrZero(x) == IF x = Absent THEN 0 ELSE x

\* the values activeRoom takes: null, a room id (what joinRoom dispatches) or
\* a Room object (what the type ChatState declares)
NullRoom == [kind |-> "null", id |-> "null"]
RoomIdString(r) == [kind |-> "string", id |-> r]
RoomObject(r) == [kind |-> "object", id |-> r]

\* state.activeRoom?.id: the id of a Room object; undefined for null and for
\* a string, which has no property `id`
OptionalId(activeRoom) ==
    IF activeRoom.kind = "object" THEN activeRoom.id ELSE "undefined"

\* state.activeRoom === roomId
IsRoomId(activeRoom, roomId) ==
    activeRoom.kind = "string" /\ activeRoom.id = roomId

chatInitialState ==
    [activeRoom |-> NullRoom,
     rooms |-> <<>>,
     messages |-> [r \in Rooms |-> <<>>],
     typingUsers |-> [r \in Rooms |-> <<>>],
     onlineUsers |-> {},
     unreadCounts |-> [r \in Rooms |-> Absent],
     lastReadTimestamps |-> {}]

\* the cases of chatReducer that leave messages and unreadCounts to the
\* spread of the old state, and the two that write one entry of unreadCounts.
\* lastReadTimestamps keeps the rooms that have a stamp; the stamp is the
\* client's clock at the dispatch.
chatReducerCases(state, action) ==
    CASE action.type = "SET_ACTIVE_ROOM" ->
           [state EXCEPT !.activeRoom = action.payload]
      [] action.type = "SET_ROOMS" ->
           [state EXCEPT !.rooms = action.payload]
      [] action.type = "ADD_ROOM" ->
           [state EXCEPT !.rooms = Append(@, action.payload)]
      [] action.type = "UPDATE_ROOM" ->
           [state EXCEPT !.rooms =
              [i \in 1..Len(@) |->
                 IF @[i].id = action.payload.id THEN action.payload ELSE @[i]]]
      [] action.type = "SET_MESSAGES" ->
           [state EXCEPT !.messages[action.payload.roomId] = action.payload.messages]
      [] action.type = "SET_TYPING_USERS" ->
           [state EXCEPT !.typingUsers[action.payload.roomId] = action.payload.users]
      [] action.type = "SET_ONLINE_USERS" ->
           [state EXCEPT !.onlineUsers = Range(action.payload)]
      [] action.type = "UPDATE_UNREAD_COUNTS" ->
           [state EXCEPT !.unreadCounts[action.payload.roomId] = action.payload.count]
      [] action.type = "MARK_ROOM_READ" ->
           [state EXCEPT !.unreadCounts[action.payload] = 0,
                         !.lastReadTimestamps = @ \cup {action.payload}]
      [] OTHER -> state

\* chatReducer with an ADD_MESSAGE case that builds unreadCounts from the
\* target room alone, without spreading the counts of the other rooms
chatReducerDropsOtherCounts(state, action) ==
    IF action.type = "ADD_MESSAGE"
    THEN LET roomId == action.payload.roomId IN
         [state EXCEPT
            !.messages[roomId] = Append(@, action.payload.message),
            !.unreadCounts = [r \in Rooms |->
                IF r = roomId
                THEN IF OptionalId(state.activeRoom) # roomId
                     THEN OrZero(state.unreadCounts[roomId]) + 1 ELSE 0
                ELSE Absent]]
    ELSE chatReducerCases(state, action)

\* chatReducer(state, action)
chatReducer(state, action) ==
    IF action.type = "ADD_MESSAGE"
    THEN LET roomId == action.payload.roomId IN
         [state EXCEPT
            !.messages[roomId] = Append(@, action.payload.message),
            !.unreadCounts[roomId] =
                IF OptionalId(state.activeRoom) # roomId
                THEN OrZero(state.unreadCounts[roomId]) + 1
                ELSE 0]
    ELSE chatReducerCases(state, action)

-----------------------------------------------------------------------------
(* SpecStore: inbound events applied to the store *)

InitStore ==
    /\ messages = <<>>
    /\ closureMessages = <<>>
    /\ listening = FALSE
    /\ authState = authInitialState
    /\ srvMsgs = {}
    /\ srvRead = [id \in MessageIds |-> {}]
    /\ srvDelivered = [id \in MessageIds |-> {}]
    /\ nEvents = 0

InitConn ==
    /\ transports = <<>>
    /\ socket = 0
    /\ chatSocket = 0
    /\ connectionState = [isConnected |-> FALSE, isConnecting |-> FALSE, error |-> "null"]
    /\ heartbeatInterval = FALSE
    /\ mainOut = "none"
    /\ chatOut = <<>>
    /\ sendCalls = 0
    /\ acked = 0

\* SocketProvider has rendered and run its effect (useState's initial value,
\* then updateConnectionState() with the SocketAPI still unconnected); no
\* heartbeat interval has elapsed and no attempt has failed
InitLife ==
    /\ published = [isConnected |-> FALSE, isConnecting |-> FALSE, error |-> "null"]
    /\ missed = 0
    /\ attempts = 0

InitIntent ==
    /\ authPending = FALSE
    /\ chatError = "null"
    /\ uncaught = FALSE

\* no joinRoom or leaveRoom has been called
NoCall == [before |-> NullRoom, answer |-> "none"]

NoInbound == [room |-> "none", active |-> FALSE]

InitRoom ==
    /\ createOut = {}
    /\ chatState = chatInitialState
    /\ roomOut = [event |-> "none", roomId |-> "none"]
    /\ joinCall = NoCall
    /\ lastInbound = NoInbound

InitPresence ==
    /\ onlineUsers = <<>>
    /\ srvOnline = {}
    /\ srvClock = 1
    /\ offlineSince = [u \in UserIds |-> 0]

InitRemoteTyping ==
    /\ typingUsers = <<>>
    /\ typingAge = [u \in UserIds |-> [r \in Rooms |-> 0]]

\* no timer is pending
NoTimeout == [room |-> "none", left |-> 0]

\* ChatContainer after its mount effects: the demo room is selected
InitLocalTyping ==
    /\ mounted = TRUE
    /\ selectedRoom = "r1"
    /\ messageText = ""
    /\ isTyping = FALSE
    /\ typingTimeoutRef = NoTimeout
    /\ typingOnWire = [r \in Rooms |-> FALSE]
    /\ keyAge = 0

\* no call of debouncedEmitTyping is pending
NoDebounced == [roomId |-> "none", isTyping |-> FALSE, wait |-> 0]

\* the wait of debouncedEmitTyping, in milliseconds
DEBOUNCE_WAIT == 300

InitDebounce ==
    /\ debounced = NoDebounced
    /\ typingStatus = [roomId |-> "none", isTyping |-> FALSE]
    /\ sinceStart = DEBOUNCE_WAIT
    /\ startRequested = {}

\* a browser that holds no token yet
InitSession ==
    /\ authToken = FALSE

\* inbound events ChatProvider has handlers for: three of the thirteen it
\* registers through chatAPI.on<Event>, and one of the four presence events
ProviderEvents == {"new_message", "user_typing", "error", "online_users"}

\* ChatProvider as mounted, before its effect has registered anything
InitListeners ==
    /\ providerMounted = TRUE
    /\ cleanupPending = FALSE
    /\ eventListeners = [e \in ProviderEvents |-> 0]
    /\ attached = [t \in 1..MaxTransports |-> [e \in ProviderEvents |-> 0]]

\* the per-room ChatContainer as mounted with no active room: its initial load
\* effect has run and loaded nothing
InitHistory ==
    /\ isLoading = FALSE
    /\ hasMore = TRUE
    /\ fetches = <<>>
    /\ nFetches = 0
    /\ loadDeps = [activeRoom |-> chatInitialState.activeRoom,
                   messages |-> chatInitialState.messages, current |-> TRUE]
    /\ loadedPage = 0

InitView ==
    /\ InitRoom /\ InitPresence /\ InitRemoteTyping
    /\ InitLocalTyping /\ InitDebounce /\ InitSession /\ InitListeners
    /\ InitHistory

Init == InitStore /\ InitConn /\ InitLife /\ InitIntent /\ InitView

Tick == nEvents < MaxEvents /\ nEvents' = nEvents + 1

\* `authenticated` reaches handleAuthenticated: SET_USER with a new user object,
\* so the ChatProvider effect runs again in the render that follows.
AuthenticatedEvent(u) ==
    /\ UNCHANGED nEvents
    /\ authState' = authReducer(authState, [type |-> "SET_USER", payload |-> u])
    /\ ChatProviderEffect(authState')
    /\ UNCHANGED <<messages, srvMsgs, srvRead, srvDelivered>>
    /\ UNCHANGED connVars
    /\ authPending' = FALSE
    /\ UNCHANGED <<lifeVars, chatError, uncaught, viewVars>>

\* `logged_out` reaches handleLoggedOut: LOGOUT; the effect runs again when
\* isAuthenticated or user changed.
LoggedOutEvent ==
    /\ UNCHANGED nEvents
    /\ authState' = authReducer(authState, [type |-> "LOGOUT"])
    /\ IF authState'.isAuthenticated # authState.isAuthenticated
          \/ authState'.user # authState.user
       THEN ChatProviderEffect(authState')
       ELSE UNCHANGED <<listening, closureMessages>>
    /\ authToken' = FALSE
    /\ UNCHANGED <<messages, srvMsgs, srvRead, srvDelivered>>
    /\ UNCHANGED connVars
    /\ UNCHANGED <<lifeVars, intentVars, shownVars>>

\* SocketProvider renders again (a setConnectionState call): its value holds a
\* new isConnected function, so the ChatProvider effect runs again.
SocketProviderRender ==
    /\ UNCHANGED nEvents
    /\ ChatProviderEffect(authState)
    /\ UNCHANGED <<messages, authState, srvMsgs, srvRead, srvDelivered>>
    /\ UNCHANGED connVars
    /\ UNCHANGED <<lifeVars, intentVars, viewVars>>

\* new_message: the server created the message, or delivers it once more
NewMessageEvent(id) ==
    /\ Tick
    /\ listening
    /\ srvMsgs' = srvMsgs \cup {id}
    /\ messages' = handleNewMessage(messages, NewMessagePayload(id))
    /\ UNCHANGED <<closureMessages, listening, authState, srvRead, srvDelivered>>
    /\ UNCHANGED connVars
    /\ UNCHANGED <<lifeVars, intentVars, viewVars>>

\* message_read: user u read message id (or the broadcast is delivered again)
MessageReadEvent(id, u) ==
    /\ Tick
    /\ listening
    /\ id \in srvMsgs
    /\ srvRead' = [srvRead EXCEPT ![id] = @ \cup {u}]
    /\ messages' = handleMessageRead(messages, closureMessages,
                        [message_id |-> id, user_id |-> u])
    /\ UNCHANGED <<closureMessages, listening, authState, srvMsgs, srvDelivered>>
    /\ UNCHANGED connVars
    /\ UNCHANGED <<lifeVars, intentVars, viewVars>>

\* message_delivered: message id reached user u
MessageDeliveredEvent(id, u) ==
    /\ Tick
    /\ listening
    /\ id \in srvMsgs
    /\ srvDelivered' = [srvDelivered EXCEPT ![id] = @ \cup {u}]
    /\ messages' = handleMessageDelivered(messages, closureMessages,
                        [message_id |-> id, user_id |-> u])
    /\ UNCHANGED <<closureMessages, listening, authState, srvMsgs, srvRead>>
    /\ UNCHANGED connVars
    /\ UNCHANGED <<lifeVars, intentVars, viewVars>>

\* room_messages: the answer to get_messages
RoomMessagesEvent ==
    /\ UNCHANGED nEvents
    /\ listening
    /\ messages' = handleRoomMessages(messages, RoomMessagesPayload)
    /\ UNCHANGED <<closureMessages, listening, authState, srvMsgs, srvRead, srvDelivered>>
    /\ UNCHANGED connVars
    /\ UNCHANGED <<lifeVars, intentVars, viewVars>>

NextStore ==
    \/ \E u \in UserIds : AuthenticatedEvent(u)
    \/ LoggedOutEvent
    \/ SocketProviderRender
    \/ \E id \in MessageIds : NewMessageEvent(id)
    \/ \E id \in MessageIds, u \in UserIds : MessageReadEvent(id, u)
    \/ \E id \in MessageIds, u \in UserIds : MessageDeliveredEvent(id, u)
    \/ RoomMessagesEvent

SpecStore == Init /\ [][NextStore]_vars

-----------------------------------------------------------------------------
(* SocketAPI (api/socket.ts) *)

\* io(url, options): a new socket, not connected, with the promise of the
\* connect()/connectToChat() call whose handlers it carries
NewTransport(ns) ==
    [ns |-> ns, connected |-> FALSE, closed |-> FALSE, promise |-> "pending"]

\* resolve() and reject() settle a pending promise and do nothing to a settled one
Settle(p, outcome) == IF p = "pending" THEN outcome ELSE p

\* this.socket?.connected, evaluated against the sockets trs
SocketConnected(trs) == socket # 0 /\ trs[socket].connected

\* this.chatSocket?.connected
ChatSocketConnected(trs) == chatSocket # 0 /\ trs[chatSocket].connected

\* emit(event, data): sent only when the current main socket is connected
emit(trs, out, event) == IF SocketConnected(trs) THEN event ELSE out

\* emitToChat(event, data): sent only when the current chat socket is connected
emitToChat(trs, out, event) ==
    IF ChatSocketConnected(trs) THEN Append(out, event) ELSE out

Live(t) == t \in 1..Len(transports) /\ ~transports[t].closed

\* connect()
connect ==
    /\ IF SocketConnected(transports)
       THEN UNCHANGED <<transports, socket, connectionState>>
       ELSE /\ Len(transports) < MaxTransports
            /\ connectionState' =
                   [connectionState EXCEPT !.isConnecting = TRUE, !.error = "null"]
            /\ transports' = Append(transports, NewTransport("main"))
            /\ socket' = Len(transports) + 1
    /\ UNCHANGED <<chatSocket, heartbeatInterval, mainOut, chatOut, sendCalls, acked>>

Connect ==
    /\ connect
    /\ UNCHANGED <<storeVars, lifeVars, intentVars, viewVars>>

\* connectToChat()
connectToChat ==
    /\ IF ChatSocketConnected(transports)
       THEN UNCHANGED <<transports, chatSocket>>
       ELSE /\ Len(transports) < MaxTransports
            /\ transports' = Append(transports, NewTransport("chat"))
            /\ chatSocket' = Len(transports) + 1
    /\ UNCHANGED <<socket, connectionState, heartbeatInterval, mainOut, chatOut,
                   sendCalls, acked>>

ConnectToChat ==
    /\ connectToChat
    /\ UNCHANGED <<storeVars, lifeVars, intentVars, viewVars>>

\* disconnect(). socket.disconnect() on a connected socket fires its
\* `disconnect` handler at once; what that handler sets, disconnect() sets
\* again, and its emit finds no connected main socket.
disconnect ==
    /\ transports' =
          [t \in 1..Len(transports) |->
              IF t = socket \/ t = chatSocket
              THEN [transports[t] EXCEPT !.connected = FALSE, !.closed = TRUE]
              ELSE transports[t]]
    /\ socket' = 0
    /\ chatSocket' = 0
    /\ heartbeatInterval' = FALSE
    /\ connectionState' =
          [connectionState EXCEPT !.isConnected = FALSE, !.isConnecting = FALSE]
    /\ UNCHANGED <<mainOut, chatOut, sendCalls, acked>>

Disconnect ==
    /\ disconnect
    /\ UNCHANGED <<storeVars, lifeVars, intentVars, viewVars>>

\* the transport reports `connect` on socket t (first connection or one the
\* library re-established)
onConnect(t) ==
    /\ Live(t)
    /\ ~transports[t].connected
    /\ LET trs == [transports EXCEPT ![t].connected = TRUE,
                                     ![t].promise = Settle(@, "resolved")]
       IN  /\ transports' = trs
           /\ IF transports[t].ns = "main"
              THEN /\ connectionState' =
                        [connectionState EXCEPT !.isConnected = TRUE,
                                                !.isConnecting = FALSE]
                   /\ heartbeatInterval' = TRUE
                   /\ mainOut' = emit(trs, mainOut, "connected")
              ELSE /\ mainOut' = emit(trs, mainOut, "chat_connected")
                   /\ UNCHANGED <<connectionState, heartbeatInterval>>
    /\ UNCHANGED <<socket, chatSocket, chatOut, sendCalls, acked>>

TransportConnect(t) ==
    /\ onConnect(t)
    /\ UNCHANGED <<storeVars, lifeVars, intentVars, viewVars>>

\* the transport reports `disconnect` on socket t (the connection dropped)
onDisconnect(t) ==
    /\ Live(t)
    /\ transports[t].connected
    /\ LET trs == [transports EXCEPT ![t].connected = FALSE]
       IN  /\ transports' = trs
           /\ IF transports[t].ns = "main"
              THEN /\ connectionState' =
                        [connectionState EXCEPT !.isConnected = FALSE,
                                                !.isConnecting = FALSE]
                   /\ heartbeatInterval' = FALSE
                   /\ mainOut' = emit(trs, mainOut, "disconnected")
              ELSE /\ mainOut' = emit(trs, mainOut, "chat_disconnected")
                   /\ UNCHANGED <<connectionState, heartbeatInterval>>
    /\ UNCHANGED <<socket, chatSocket, chatOut, sendCalls, acked>>

TransportDisconnect(t) ==
    /\ onDisconnect(t)
    /\ UNCHANGED <<storeVars, lifeVars, intentVars, viewVars>>

\* the server sends `error` on the connected socket t
onError(t) ==
    /\ Live(t)
    /\ transports[t].connected
    /\ transports' = [transports EXCEPT ![t].promise = Settle(@, "rejected")]
    /\ IF transports[t].ns = "main"
       THEN connectionState' = [connectionState EXCEPT !.error = "err"]
       ELSE UNCHANGED connectionState
    /\ mainOut' = emit(transports, mainOut, "error")
    /\ UNCHANGED <<socket, chatSocket, heartbeatInterval, chatOut, sendCalls, acked>>

TransportError(t) ==
    /\ onError(t)
    /\ UNCHANGED <<storeVars, lifeVars, intentVars, viewVars>>

\* the transport reports `connect_error` on the main socket t (only connect()
\* registers a handler for it)
onConnectError(t) ==
    /\ Live(t)
    /\ ~transports[t].connected
    /\ transports[t].ns = "main"
    /\ transports' = [transports EXCEPT ![t].promise = Settle(@, "rejected")]
    /\ connectionState' =
          [connectionState EXCEPT !.error = "err", !.isConnecting = FALSE]
    /\ mainOut' = emit(transports, mainOut, "error")
    /\ UNCHANGED <<socket, chatSocket, heartbeatInterval, chatOut, sendCalls, acked>>

TransportConnectError(t) ==
    /\ onConnectError(t)
    /\ UNCHANGED <<storeVars, lifeVars, intentVars, viewVars>>

\* the interval set by startHeartbeat() fires
heartbeat ==
    /\ heartbeatInterval
    /\ mainOut' = IF SocketConnected(transports)
                  THEN emit(transports, mainOut, "heartbeat")
                  ELSE mainOut
    /\ UNCHANGED <<transports, socket, chatSocket, connectionState,
                   heartbeatInterval, chatOut, sendCalls, acked>>

HeartbeatTick ==
    /\ heartbeat
    /\ UNCHANGED <<storeVars, lifeVars, intentVars, viewVars>>

\* ChatProvider.sendMessage -> chatAPI.sendMessage -> socketAPI.sendMessage
contextSendMessage ==
    /\ authState.user # NoUser
    /\ sendCalls < MaxSends
    /\ sendCalls' = sendCalls + 1
    /\ chatOut' = emitToChat(transports, chatOut, "send_message")
    /\ UNCHANGED <<transports, socket, chatSocket, connectionState,
                   heartbeatInterval, mainOut, acked>>

sendMessage ==
    /\ contextSendMessage
    /\ UNCHANGED <<storeVars, lifeVars, intentVars, viewVars>>

\* the server answers a send_message it received with message_sent; no
\* listener is registered for that event (chatAPI.onMessageSent has no caller)
MessageSentEvent ==
    /\ ChatSocketConnected(transports)
    /\ acked < Len(chatOut)
    /\ acked' = acked + 1
    /\ UNCHANGED <<transports, socket, chatSocket, connectionState,
                   heartbeatInterval, mainOut, chatOut, sendCalls>>
    /\ UNCHANGED <<storeVars, lifeVars, intentVars, viewVars>>

NextConn ==
    \/ Connect
    \/ ConnectToChat
    \/ Disconnect
    \/ \E t \in 1..MaxTransports : TransportConnect(t)
    \/ \E t \in 1..MaxTransports : TransportDisconnect(t)
    \/ \E t \in 1..MaxTransports : TransportError(t)
    \/ \E t \in 1..MaxTransports : TransportConnectError(t)
    \/ HeartbeatTick
    \/ AuthenticatedEvent(LocalUser)
    \/ LoggedOutEvent
    \/ sendMessage
    \/ MessageSentEvent

SpecConn == Init /\ [][NextConn]_vars

-----------------------------------------------------------------------------
(* SocketProvider (contexts/SocketContext.tsx) over the SocketAPI.            *)
(* Its effect registered handleConnected, handleDisconnected, handleError and *)
(* handleConnectError through socketAPI.on() while this.socket was null: on() *)
(* kept them in eventListeners and attached them to no socket, and connect()  *)
(* attaches only its own four handlers to the socket it creates. The state    *)
(* SocketProvider publishes is therefore written by its connect() wrapper     *)
(* alone.                                                                     *)

\* SOCKET_CONFIG.options.reconnectionAttempts: after the first attempt the
\* transport retries this many times and then gives up
reconnectionAttempts == 5

\* setConnectionState(prev => ({ ...prev, isConnecting: true, error: null }))
setConnecting(state) == [state EXCEPT !.isConnecting = TRUE, !.error = "null"]

\* the catch branch of the wrapper:
\* setConnectionState(prev => ({ ...prev, isConnecting: false, error: message }))
setFailed(state) == [state EXCEPT !.isConnecting = FALSE, !.error = "err"]

\* SocketProvider.connect(): publishes isConnecting, then awaits socketAPI.connect()
SocketProviderConnect ==
    /\ published' = setConnecting(published)
    /\ connect
    /\ attempts' = IF SocketConnected(transports) THEN attempts ELSE 0
    /\ UNCHANGED missed
    /\ UNCHANGED <<storeVars, intentVars, viewVars>>

\* SocketProvider.disconnect(): socketAPI.disconnect() and nothing else
SocketProviderDisconnect ==
    /\ disconnect
    /\ missed' = 0
    /\ attempts' = 0
    /\ UNCHANGED published
    /\ UNCHANGED <<storeVars, intentVars, viewVars>>

\* socket t reports `connect`: the handler connect() attached runs; the
\* awaiting wrapper resumes and publishes nothing
ConnectReported(t) ==
    /\ onConnect(t)
    /\ missed' = 0
    /\ attempts' = 0
    /\ UNCHANGED published
    /\ UNCHANGED <<storeVars, intentVars, viewVars>>

\* socket t reports `disconnect`
DisconnectReported(t) ==
    /\ onDisconnect(t)
    /\ missed' = 0
    /\ UNCHANGED <<published, attempts>>
    /\ UNCHANGED <<storeVars, intentVars, viewVars>>

\* the server sends `error` on the connected socket t (inbound traffic)
ErrorReported(t) ==
    /\ onError(t)
    /\ missed' = 0
    /\ UNCHANGED <<published, attempts>>
    /\ UNCHANGED <<storeVars, intentVars, viewVars>>

\* an attempt of socket t fails (`connect_error`); when this rejects the
\* promise the wrapper awaits, its catch branch publishes the failure. The
\* transport makes one attempt and reconnectionAttempts retries.
ConnectErrorReported(t) ==
    /\ attempts <= reconnectionAttempts
    /\ onConnectError(t)
    /\ attempts' = attempts + 1
    /\ published' = IF transports[t].promise = "pending"
                    THEN setFailed(published)
                    ELSE published
    /\ UNCHANGED missed
    /\ UNCHANGED <<storeVars, intentVars, viewVars>>

\* HEARTBEAT_INTERVAL elapses: the callback of startHeartbeat() runs
HeartbeatInterval ==
    /\ heartbeat
    /\ missed' = IF missed < MaxMissed THEN missed + 1 ELSE missed
    /\ UNCHANGED <<published, attempts>>
    /\ UNCHANGED <<storeVars, intentVars, viewVars>>

\* the server sends heartbeat_response on the connected main socket; the
\* client has no listener for it
HeartbeatResponseEvent ==
    /\ SocketConnected(transports)
    /\ missed # 0
    /\ missed' = 0
    /\ UNCHANGED <<published, attempts>>
    /\ UNCHANGED <<storeVars, connVars, intentVars, viewVars>>

NextLife ==
    \/ SocketProviderConnect
    \/ SocketProviderDisconnect
    \/ \E t \in 1..MaxTransports : ConnectReported(t)
    \/ \E t \in 1..MaxTransports : DisconnectReported(t)
    \/ \E t \in 1..MaxTransports : ErrorReported(t)
    \/ \E t \in 1..MaxTransports : ConnectErrorReported(t)
    \/ HeartbeatInterval
    \/ HeartbeatResponseEvent

SpecLife == Init /\ [][NextLife]_vars

-----------------------------------------------------------------------------
(* AuthProvider (contexts/AuthContext) over the main channel. The events the  *)
(* server sends are taken to reach the handlers AuthProvider registered.     *)

\* AuthProvider.authenticate(token), called by the mount effect when a token
\* is stored and by any caller that supplies a token
authenticate ==
    /\ authState' =
          authReducer(authReducer(authState, [type |-> "SET_LOADING", payload |-> TRUE]),
                      [type |-> "CLEAR_ERROR"])
    /\ mainOut' = emit(transports, mainOut, "authenticate")
    /\ authPending' = (authPending \/ SocketConnected(transports))
    /\ UNCHANGED <<messages, closureMessages, listening, srvMsgs, srvRead,
                   srvDelivered, nEvents>>
    /\ UNCHANGED <<transports, socket, chatSocket, connectionState,
                   heartbeatInterval, chatOut, sendCalls, acked>>
    /\ UNCHANGED <<lifeVars, chatError, uncaught, viewVars>>

\* the server rejects the pending authenticate with `error` on the main
\* socket: the ERROR handler of connect() runs, AuthProvider.handleError
\* dispatches SET_ERROR, and ChatProvider.handleError, when registered,
\* writes the chat store's error
AuthErrorEvent ==
    /\ authPending
    /\ SocketConnected(transports)
    /\ onError(socket)
    /\ authState' = authReducer(authState, [type |-> "SET_ERROR", payload |-> "err"])
    /\ chatError' = IF listening THEN "err" ELSE chatError
    /\ authPending' = FALSE
    /\ UNCHANGED <<messages, closureMessages, listening, srvMsgs, srvRead,
                   srvDelivered, nEvents>>
    /\ UNCHANGED <<lifeVars, uncaught, viewVars>>

\* `logged_in` reaches handleLoggedIn: the token is stored and SET_USER is
\* dispatched, so the ChatProvider effect runs again in the render that follows
LoggedInEvent(u) ==
    /\ authToken' = TRUE
    /\ authState' = authReducer(authState, [type |-> "SET_USER", payload |-> u])
    /\ ChatProviderEffect(authState')
    /\ UNCHANGED <<messages, srvMsgs, srvRead, srvDelivered, nEvents>>
    /\ UNCHANGED connVars
    /\ UNCHANGED <<lifeVars, intentVars, shownVars>>

NextAuth ==
    \/ LoggedInEvent(LocalUser)
    \/ Connect
    \/ Disconnect
    \/ \E t \in 1..MaxTransports : TransportConnect(t)
    \/ \E t \in 1..MaxTransports : TransportDisconnect(t)
    \/ authenticate
    \/ AuthenticatedEvent(LocalUser)
    \/ AuthErrorEvent
    \/ LoggedOutEvent

SpecAuth == Init /\ [][NextAuth]_vars

-----------------------------------------------------------------------------
(* The hooks useChat and useAuth (hooks/useChat.ts, hooks/useAuth.ts): the    *)
(* intents of the user interface, validated before they reach the contexts.  *)

\* validateMessage rejects content longer than this
MaxMessageLength == 1000

\* validateLoginForm rejects a password shorter than this
MinPasswordLength == 6

\* message contents, by the two measures validateMessage takes of them:
\* content.length and content.trim().length
Contents ==
    {[length |-> 0, trimmed |-> 0], [length |-> 2, trimmed |-> 0],
     [length |-> 2, trimmed |-> 2], [length |-> 1000, trimmed |-> 1000],
     [length |-> 1001, trimmed |-> 1001], [length |-> 1001, trimmed |-> 0]}

\* login forms, by username.trim().length and password.length
LoginForms ==
    {[username |-> 0, password |-> 6], [username |-> 3, password |-> 0],
     [username |-> 3, password |-> 5], [username |-> 3, password |-> 6]}

\* validateMessage(content).errors
validateMessage(content) ==
    (IF content.length = 0 \/ content.trimmed = 0
     THEN <<"Message cannot be empty">> ELSE <<>>)
    \o (IF content.length > MaxMessageLength
        THEN <<"Message is too long (max 1000 characters)">> ELSE <<>>)

\* validateLoginForm(username, password).errors
validateLoginForm(data) ==
    (IF data.username = 0 THEN <<"Username is required">> ELSE <<>>)
    \o (IF data.password = 0 THEN <<"Password is required">> ELSE <<>>)
    \o (IF data.password < MinPasswordLength
        THEN <<"Password must be at least 6 characters">> ELSE <<>>)

\* chatContext.setError(...) and authContext.setError(...): neither context
\* value has a setError member, so the call throws a TypeError and the hook
\* is left at that point
setErrorThroughContext ==
    /\ uncaught' = TRUE
    /\ UNCHANGED <<storeVars, connVars, lifeVars, authPending, chatError, viewVars>>

\* useChat().sendMessage(content, roomId)
useChatSendMessage(content) ==
    /\ authState.user # NoUser
    /\ IF validateMessage(content) # <<>>
       THEN setErrorThroughContext
       ELSE /\ contextSendMessage
            /\ chatError' = "null"
            /\ UNCHANGED <<storeVars, lifeVars, authPending, uncaught, viewVars>>

\* useAuth().login(data); authContext.login dispatches SET_LOADING and
\* CLEAR_ERROR and emits login on the main channel
useAuthLogin(data) ==
    IF validateLoginForm(data) # <<>>
    THEN setErrorThroughContext
    ELSE /\ authState' =
               authReducer(authReducer(authState, [type |-> "SET_LOADING", payload |-> TRUE]),
                           [type |-> "CLEAR_ERROR"])
         /\ mainOut' = emit(transports, mainOut, "login")
         /\ UNCHANGED <<messages, closureMessages, listening, srvMsgs, srvRead,
                        srvDelivered, nEvents>>
         /\ UNCHANGED <<transports, socket, chatSocket, connectionState,
                        heartbeatInterval, chatOut, sendCalls, acked>>
         /\ UNCHANGED <<lifeVars, intentVars, viewVars>>

\* the server sends `error` on the chat socket: the ERROR handler of
\* connectToChat() runs and ChatProvider.handleError, when registered, writes
\* the chat store's error
ChatErrorEvent ==
    /\ ChatSocketConnected(transports)
    /\ onError(chatSocket)
    /\ chatError' = IF listening THEN "err" ELSE chatError
    /\ UNCHANGED <<storeVars, lifeVars, authPending, uncaught, viewVars>>

\* validateRoomName rejects a name longer than this
MaxRoomNameLength == 50

\* room names, by the measures validateRoomName takes of them: name.length,
\* name.trim().length, and whether every character is a letter, a digit,
\* white space, `-` or `_`
RoomNames ==
    {[length |-> 0, trimmed |-> 0, allowed |-> TRUE],
     [length |-> 3, trimmed |-> 0, allowed |-> TRUE],
     [length |-> 7, trimmed |-> 7, allowed |-> TRUE],
     [length |-> 7, trimmed |-> 7, allowed |-> FALSE],
     [length |-> 50, trimmed |-> 50, allowed |-> TRUE],
     [length |-> 51, trimmed |-> 51, allowed |-> TRUE]}

\* validateRoomName(name).errors; the pattern ^[a-zA-Z0-9\s-_]+$ needs at
\* least one character
validateRoomName(name) ==
    (IF name.length = 0 \/ name.trimmed = 0
     THEN <<"Room name cannot be empty">> ELSE <<>>)
    \o (IF name.length > MaxRoomNameLength
        THEN <<"Room name is too long (max 50 characters)">> ELSE <<>>)
    \o (IF name.length = 0 \/ ~name.allowed
        THEN <<"Room name contains invalid characters">> ELSE <<>>)

\* useChat().createRoom(name) -> ChatProvider.createRoom -> chatAPI.createRoom
\* -> socketAPI.createRoom: emitToChat(create_room, { room_name: name, ... })
useChatCreateRoom(name) ==
    /\ authState.user # NoUser
    /\ Len(SelectSeq(chatOut, LAMBDA e : e = "create_room")) < MaxCreates
    /\ chatOut' = emitToChat(transports, chatOut, "create_room")
    /\ createOut' = IF ChatSocketConnected(transports)
                    THEN createOut \cup {name} ELSE createOut
    /\ UNCHANGED <<transports, socket, chatSocket, connectionState,
                   heartbeatInterval, mainOut, sendCalls, acked>>
    /\ UNCHANGED <<storeVars, lifeVars, intentVars, providerVars, presenceVars,
                   remoteTypingVars, inputVars, sessionVars, listenerVars, historyVars>>

NextIntent ==
    \/ Connect
    \/ ConnectToChat
    \/ \E t \in 1..MaxTransports : TransportConnect(t)
    \/ \E t \in 1..MaxTransports : TransportDisconnect(t)
    \/ AuthenticatedEvent(LocalUser)
    \/ LoggedOutEvent
    \/ \E content \in Contents : useChatSendMessage(content)
    \/ \E data \in LoginForms : useAuthLogin(data)
    \/ ChatErrorEvent

SpecIntent == Init /\ [][NextIntent]_vars

\* the room intents of useChat, over the chat channel
NextRoomIntent ==
    \/ ConnectToChat
    \/ \E t \in 1..MaxTransports : TransportConnect(t)
    \/ \E t \in 1..MaxTransports : TransportDisconnect(t)
    \/ AuthenticatedEvent(LocalUser)
    \/ LoggedOutEvent
    \/ \E name \in RoomNames : useChatCreateRoom(name)

SpecRoomIntent == Init /\ [][NextRoomIntent]_vars

-----------------------------------------------------------------------------
(* The per-room ChatProvider (part_008): its intents and its handlers *)

\* everything outside the per-room provider
outsideProvider == <<storeVars, connVars, lifeVars, intentVars, createOut,
                     presenceVars, remoteTypingVars, inputVars, sessionVars,
                     listenerVars, historyVars>>

\* const { socket } = useSocket(): the socket object of the connection, null
\* until connect() has created one
useSocketSocket == socket

\* !socket || !user, negated: the guard of the effect and of every intent
ProviderReady == useSocketSocket # 0 /\ authState.user # NoUser

\* roomId names the room the provider holds as active
IsActive(state, roomId) ==
    IsRoomId(state.activeRoom, roomId) \/ OptionalId(state.activeRoom) = roomId

\* socket.emit(event, { roomId })
roomEmit(out, event, roomId) == [event |-> event, roomId |-> roomId]

\* joinRoom(roomId)
joinRoom(roomId) ==
    /\ ProviderReady
    /\ roomOut' = roomEmit(roomOut, "room:join", roomId)
    /\ chatState' =
          chatReducer(chatReducer(chatState,
                                  [type |-> "SET_ACTIVE_ROOM", payload |-> RoomIdString(roomId)]),
                      [type |-> "MARK_ROOM_READ", payload |-> roomId])
    /\ joinCall' = [before |-> chatState.activeRoom, answer |-> "pending"]
    /\ lastInbound' = NoInbound
    /\ UNCHANGED outsideProvider

\* leaveRoom(roomId)
leaveRoom(roomId) ==
    /\ ProviderReady
    /\ roomOut' = roomEmit(roomOut, "room:leave", roomId)
    /\ chatState' =
          IF IsRoomId(chatState.activeRoom, roomId)
          THEN chatReducer(chatState, [type |-> "SET_ACTIVE_ROOM", payload |-> NullRoom])
          ELSE chatState
    /\ joinCall' = [before |-> chatState.activeRoom, answer |-> "pending"]
    /\ lastInbound' = NoInbound
    /\ UNCHANGED outsideProvider

\* the answer to the pending room:join or room:leave arrives (an
\* acknowledgment or an error), or the time allowed for it passes. The effect
\* registers message:new, room:update, typing:update and presence:update
\* only, and neither intent starts a timer: nothing of the provider runs.
RoomCallAnswered(answer) ==
    /\ joinCall.answer = "pending"
    /\ joinCall' = [joinCall EXCEPT !.answer = answer]
    /\ UNCHANGED <<chatState, roomOut, lastInbound>>
    /\ UNCHANGED outsideProvider

\* state.rooms.find(r => r.id === roomId): the index of the first match, or 0
FindRoom(rooms, roomId) ==
    IF \E i \in 1..Len(rooms) : rooms[i].id = roomId
    THEN CHOOSE i \in 1..Len(rooms) :
            /\ rooms[i].id = roomId
            /\ \A j \in 1..(i - 1) : rooms[j].id # roomId
    ELSE 0

\* socket.on('message:new', ...): ADD_MESSAGE, then UPDATE_ROOM when the room
\* is in the rooms of the render that registered the handler (the effect runs
\* again whenever state.rooms changes)
MessageNewEvent(id) ==
    /\ ProviderReady
    /\ Len(chatState.messages[RoomOf(id)]) < MaxRoomMessages
    /\ LET roomId == RoomOf(id)
           added == chatReducer(chatState,
                                [type |-> "ADD_MESSAGE",
                                 payload |-> [roomId |-> roomId, message |-> id]])
           i == FindRoom(chatState.rooms, roomId)
       IN  chatState' =
             IF i # 0
             THEN chatReducer(added,
                              [type |-> "UPDATE_ROOM",
                               payload |-> [chatState.rooms[i] EXCEPT !.lastMessage = id]])
             ELSE added
    /\ lastInbound' = [room |-> RoomOf(id), active |-> IsActive(chatState, RoomOf(id))]
    /\ UNCHANGED <<roomOut, joinCall>>
    /\ UNCHANGED outsideProvider

\* createRoom(name, members): the POST to /api/rooms answers with the room
\* and ADD_ROOM stores it; the server gives every room it creates a new id
roomCreateRoom(roomId) ==
    /\ ProviderReady
    /\ FindRoom(chatState.rooms, roomId) = 0
    /\ chatState' = chatReducer(chatState,
                                [type |-> "ADD_ROOM",
                                 payload |-> [id |-> roomId, lastMessage |-> "none"]])
    /\ UNCHANGED <<roomOut, joinCall, lastInbound>>
    /\ UNCHANGED outsideProvider

\* the messages the server pushes to the provider: one of each room, each
\* of which may be delivered more than once
InboundIds == {"m1", "m2"}

\* the provider is followed over one connection: connect() is called once
NextRoom ==
    \/ (socket = 0 /\ Connect)
    \/ AuthenticatedEvent(LocalUser)
    \/ \E r \in Rooms : joinRoom(r)
    \/ \E r \in Rooms : leaveRoom(r)
    \/ \E a \in {"acknowledged", "error", "timeout"} : RoomCallAnswered(a)
    \/ \E id \in InboundIds : MessageNewEvent(id)
    \/ \E r \in Rooms : roomCreateRoom(r)

SpecRoom == Init /\ [][NextRoom]_vars

-----------------------------------------------------------------------------
(* Presence: the user store (stores/userStore.ts, part_007) and the presence *)
(* handlers of the flat-store ChatProvider. The events are taken to reach    *)
(* the handlers while the effect has them registered.                        *)

\* userStore.setOnlineUsers(users)
setOnlineUsers(state, users) == users

\* findIndex(u => u.user_id === id): the index of the first match, or 0
FindUser(users, id) ==
    IF \E i \in 1..Len(users) : users[i].user_id = id
    THEN CHOOSE i \in 1..Len(users) :
            /\ users[i].user_id = id
            /\ \A j \in 1..(i - 1) : users[j].user_id # id
    ELSE 0

\* userStore.addOnlineUser(user)
addOnlineUser(state, user) ==
    LET existingIndex == FindUser(state, user.user_id) IN
    IF existingIndex > 0
    THEN [state EXCEPT ![existingIndex] = user]
    ELSE Append(state, user)

\* userStore.removeOnlineUser(userId)
removeOnlineUser(state, userId) ==
    SelectSeq(state, LAMBDA user : user.user_id # userId)

handleOnlineUsers(state, data) == setOnlineUsers(state, data.users)

handleUserOnline(state, data) == addOnlineUser(state, data)

handleUserOffline(state, data) == removeOnlineUser(state, data.user_id)

\* the User record the server sends for u
UserPayload(u, online, lastSeen) ==
    [user_id |-> u, is_online |-> online, last_seen |-> lastSeen]

\* online_users: the snapshot of the users that are online
OnlineUsersEvent ==
    /\ listening
    /\ onlineUsers' =
          handleOnlineUsers(onlineUsers,
              [users |-> [i \in 1..Len(SetToSeq(srvOnline)) |->
                            UserPayload(SetToSeq(srvOnline)[i], TRUE, srvClock)]])
    /\ offlineSince' = [u \in UserIds |-> 0]
    /\ UNCHANGED <<srvOnline, srvClock>>
    /\ UNCHANGED <<storeVars, connVars, lifeVars, intentVars, roomVars, remoteTypingVars,
                   inputVars, sessionVars, listenerVars, historyVars>>

\* user u comes online at the server (with or without this client
\* listening); user_online is the delta
UserOnlineEvent(u) ==
    /\ u \notin srvOnline
    /\ srvClock < MaxClock
    /\ srvOnline' = srvOnline \cup {u}
    /\ srvClock' = srvClock + 1
    /\ IF listening
       THEN /\ onlineUsers' = handleUserOnline(onlineUsers, UserPayload(u, TRUE, srvClock))
            /\ offlineSince' = [offlineSince EXCEPT ![u] = 0]
       ELSE UNCHANGED <<onlineUsers, offlineSince>>
    /\ UNCHANGED <<storeVars, connVars, lifeVars, intentVars, roomVars, remoteTypingVars,
                   inputVars, sessionVars, listenerVars, historyVars>>

\* user u goes offline at the server; user_offline carries the user id and
\* the server's last_seen
UserOfflineEvent(u) ==
    /\ u \in srvOnline
    /\ srvClock < MaxClock
    /\ srvOnline' = srvOnline \ {u}
    /\ srvClock' = srvClock + 1
    /\ IF listening
       THEN /\ onlineUsers' = handleUserOffline(onlineUsers, UserPayload(u, FALSE, srvClock))
            /\ offlineSince' =
                  IF FindUser(onlineUsers, u) # 0
                  THEN [offlineSince EXCEPT ![u] = srvClock]
                  ELSE offlineSince
       ELSE UNCHANGED <<onlineUsers, offlineSince>>
    /\ UNCHANGED <<storeVars, connVars, lifeVars, intentVars, roomVars, remoteTypingVars,
                   inputVars, sessionVars, listenerVars, historyVars>>

NextPresence ==
    \/ AuthenticatedEvent(LocalUser)
    \/ LoggedOutEvent
    \/ OnlineUsersEvent
    \/ \E u \in UserIds : UserOnlineEvent(u)
    \/ \E u \in UserIds : UserOfflineEvent(u)

SpecPresence == Init /\ [][NextPresence]_vars

-----------------------------------------------------------------------------
(* Remote typing: the typing list of the chat store and handleUserTyping.   *)
(* Time is counted in milliseconds and passes in steps of half the typing   *)
(* timeout.                                                                  *)

\* utils/constants.ts: TYPING_TIMEOUT, in milliseconds
TYPING_TIMEOUT == 5000

TimeStep == TYPING_TIMEOUT \div 2

\* findIndex(u => u.user_id === user.user_id && u.room_id === user.room_id):
\* the index of the first match, or 0
FindTypingUser(users, userId, roomId) ==
    IF \E i \in 1..Len(users) : users[i].user_id = userId /\ users[i].room_id = roomId
    THEN CHOOSE i \in 1..Len(users) :
            /\ users[i].user_id = userId /\ users[i].room_id = roomId
            /\ \A j \in 1..(i - 1) :
                  ~(users[j].user_id = userId /\ users[j].room_id = roomId)
    ELSE 0

addTypingUserAlwaysAppends(state, user) ==
    Append(state, user)
\* chatStore.addTypingUser(user)
addTypingUser(state, user) ==
    LET existingIndex == FindTypingUser(state, user.user_id, user.room_id) IN
    IF existingIndex > 0
    THEN [state EXCEPT ![existingIndex] = user]
    ELSE Append(state, user)

\* chatStore.removeTypingUser(userId, roomId)
removeTypingUser(state, userId, roomId) ==
    SelectSeq(state, LAMBDA user : ~(user.user_id = userId /\ user.room_id = roomId))

\* handleUserTyping(data)
handleUserTyping(state, data) ==
    LET typingUser == [user_id |-> data.user_id, room_id |-> data.room_id,
                       is_typing |-> data.is_typing]
    IN  IF data.is_typing
        THEN addTypingUser(state, typingUser)
        ELSE removeTypingUser(state, data.user_id, data.room_id)

\* user_typing reaches handleUserTyping
UserTypingEvent(u, r, is_typing) ==
    /\ listening
    /\ typingUsers' = handleUserTyping(typingUsers,
                          [user_id |-> u, room_id |-> r, is_typing |-> is_typing])
    /\ typingAge' = [typingAge EXCEPT ![u][r] = 0]
    /\ UNCHANGED <<storeVars, connVars, lifeVars, intentVars, roomVars, presenceVars,
                   inputVars, sessionVars, listenerVars, historyVars>>

\* TimeStep milliseconds pass with nothing received. Neither the store nor
\* the provider holds a timer or a sweep for the typing list.
TypingTimePasses ==
    /\ \E u \in UserIds, r \in Rooms :
          FindTypingUser(typingUsers, u, r) # 0 /\ typingAge[u][r] <= TYPING_TIMEOUT
    /\ typingAge' =
          [u \in UserIds |-> [r \in Rooms |->
              IF FindTypingUser(typingUsers, u, r) # 0 /\ typingAge[u][r] <= TYPING_TIMEOUT
              THEN typingAge[u][r] + TimeStep
              ELSE typingAge[u][r]]]
    /\ UNCHANGED typingUsers
    /\ UNCHANGED <<storeVars, connVars, lifeVars, intentVars, roomVars, presenceVars,
                   inputVars, sessionVars, listenerVars, historyVars>>

NextRemoteTyping ==
    \/ AuthenticatedEvent(LocalUser)
    \/ LoggedOutEvent
    \/ \E u \in UserIds, r \in Rooms, b \in BOOLEAN : UserTypingEvent(u, r, b)
    \/ TypingTimePasses

SpecRemoteTyping == Init /\ [][NextRemoteTyping]_vars

-----------------------------------------------------------------------------
(* Local typing: MessageInput, the handlers of ChatContainer and the typing *)
(* intents of useChat with their auto-stop timer. Time passes in the same   *)
(* steps as for the remote typing list; a timer fires when its time is up,  *)
(* before more time passes.                                                 *)

\* the values of the input: empty, or some text
Texts == {"", "a"}

\* a value of the input by the measures validateMessage takes of it
TextContent(text) ==
    IF text = "" THEN [length |-> 0, trimmed |-> 0] ELSE [length |-> 1, trimmed |-> 1]

\* the user acts on the mounted component
CanAct == mounted /\ Len(chatOut) < MaxWire

\* what the typing intents act on: the wire of the chat channel, the timer
\* reference of the hook, and the typing events the wire carried last
TypingHook == [out |-> chatOut, ref |-> typingTimeoutRef, wire |-> typingOnWire]

\* chatAPI.startTyping / stopTyping -> socketAPI: emitToChat(event,
\* { room_id: roomId }), behind ChatProvider's `if (!user) return`
contextTyping(h, event, roomId) ==
    IF authState.user = NoUser
    THEN h
    ELSE [h EXCEPT !.out = emitToChat(transports, h.out, event),
                   !.wire = IF ChatSocketConnected(transports)
                            THEN [h.wire EXCEPT ![roomId] = (event = "typing_start")]
                            ELSE h.wire]

\* useChat().startTyping(roomId)
startTyping(h, roomId) ==
    IF authState.user = NoUser
    THEN h
    ELSE [contextTyping(h, "typing_start", roomId)
             EXCEPT !.ref = [room |-> roomId, left |-> TYPING_TIMEOUT]]

\* useChat().stopTyping(roomId)
stopTyping(h, roomId) ==
    IF authState.user = NoUser
    THEN h
    ELSE [contextTyping(h, "typing_stop", roomId) EXCEPT !.ref = NoTimeout]

\* ChatContainer.handleTyping(isTyping); selectedRoom is set from the mount on
handleTyping(h, typing) ==
    IF typing THEN startTyping(h, selectedRoom) ELSE stopTyping(h, selectedRoom)

\* the typing hook is left as h
HookBecomes(h) ==
    /\ chatOut' = h.out
    /\ typingTimeoutRef' = h.ref
    /\ typingOnWire' = h.wire

\* what no handler of the message input touches
outsideInput == <<storeVars, lifeVars, authPending, uncaught, roomVars,
                  presenceVars, remoteTypingVars, debounceVars, sessionVars,
                  listenerVars, historyVars,
                  transports, socket, chatSocket, connectionState,
                  heartbeatInterval, mainOut, acked>>

\* MessageInput.handleInputChange: the input's value becomes newValue
handleInputChange(newValue) ==
    /\ CanAct
    /\ newValue # "" \/ messageText # ""
    /\ messageText' = newValue
    /\ keyAge' = 0
    /\ IF newValue # "" /\ ~isTyping
       THEN /\ isTyping' = TRUE
            /\ HookBecomes(handleTyping(TypingHook, TRUE))
       ELSE IF newValue = "" /\ isTyping
       THEN /\ isTyping' = FALSE
            /\ HookBecomes(handleTyping(TypingHook, FALSE))
       ELSE /\ UNCHANGED isTyping
            /\ HookBecomes(TypingHook)
    /\ UNCHANGED <<mounted, selectedRoom, sendCalls, chatError>>
    /\ UNCHANGED outsideInput

\* MessageInput.handleSend -> ChatContainer.handleSendMessage ->
\* useChat().sendMessage, then onTyping(false)
handleSend ==
    /\ CanAct
    /\ TextContent(messageText).trimmed # 0
    /\ LET signedIn == authState.user # NoUser
           valid == validateMessage(TextContent(messageText)) = <<>>
           sent == [TypingHook EXCEPT
                       !.out = IF signedIn /\ valid
                               THEN emitToChat(transports, chatOut, "send_message")
                               ELSE chatOut]
       IN  /\ signedIn /\ valid => sendCalls < MaxSends
           /\ sendCalls' = IF signedIn /\ valid THEN sendCalls + 1 ELSE sendCalls
           /\ chatError' = IF signedIn /\ valid THEN "null" ELSE chatError
           /\ HookBecomes(handleTyping(sent, FALSE))
    /\ messageText' = ""
    /\ isTyping' = FALSE
    /\ UNCHANGED <<mounted, selectedRoom, keyAge>>
    /\ UNCHANGED outsideInput

\* MessageInput.handleBlur
handleBlur ==
    /\ CanAct
    /\ isTyping
    /\ isTyping' = FALSE
    /\ HookBecomes(handleTyping(TypingHook, FALSE))
    /\ UNCHANGED <<mounted, selectedRoom, messageText, keyAge, sendCalls, chatError>>
    /\ UNCHANGED outsideInput

\* ChatContainer.handleRoomChange(room): leaveRoom for the room selected so
\* far, then the effect on selectedRoom runs joinRoom and getMessages for the
\* new one
handleRoomChange(room) ==
    /\ CanAct
    /\ room # selectedRoom
    /\ selectedRoom' = room
    /\ LET signedIn == authState.user # NoUser
           left == IF signedIn THEN emitToChat(transports, chatOut, "leave_room")
                   ELSE chatOut
           joined == IF signedIn THEN emitToChat(transports, left, "join_room")
                     ELSE left
       IN  chatOut' = emitToChat(transports, joined, "get_messages")
    /\ UNCHANGED <<mounted, messageText, isTyping, typingTimeoutRef, typingOnWire,
                   keyAge, sendCalls, chatError>>
    /\ UNCHANGED outsideInput

\* the timer startTyping set runs: chatContext.stopTyping(roomId). The
\* reference keeps the handle of the timer that ran, which clearTimeout
\* ignores.
TypingTimeoutFires ==
    /\ typingTimeoutRef # NoTimeout
    /\ typingTimeoutRef.left = 0
    /\ HookBecomes([contextTyping(TypingHook, "typing_stop", typingTimeoutRef.room)
                       EXCEPT !.ref = NoTimeout])
    /\ UNCHANGED <<mounted, selectedRoom, messageText, isTyping, keyAge,
                   sendCalls, chatError>>
    /\ UNCHANGED outsideInput

\* TimeStep milliseconds pass with no change of the input
InputTimePasses ==
    /\ mounted
    /\ typingTimeoutRef # NoTimeout \/ keyAge < TYPING_TIMEOUT
    /\ typingTimeoutRef # NoTimeout => typingTimeoutRef.left > 0
    /\ typingTimeoutRef' =
          IF typingTimeoutRef = NoTimeout
          THEN NoTimeout
          ELSE [typingTimeoutRef EXCEPT !.left = @ - TimeStep]
    /\ keyAge' = IF keyAge < TYPING_TIMEOUT THEN keyAge + TimeStep ELSE keyAge
    /\ UNCHANGED <<mounted, selectedRoom, messageText, isTyping, typingOnWire,
                   chatOut, sendCalls, chatError>>
    /\ UNCHANGED outsideInput

\* ChatContainer unmounts: the cleanup of useChat clears the timer
Unmount ==
    /\ mounted
    /\ mounted' = FALSE
    /\ typingTimeoutRef' = NoTimeout
    /\ UNCHANGED <<selectedRoom, messageText, isTyping, typingOnWire, keyAge,
                   chatOut, sendCalls, chatError>>
    /\ UNCHANGED outsideInput

\* ChatProvider connects the chat channel once; the transport connects and
\* disconnects on its own
NextTyping ==
    \/ (chatSocket = 0 /\ ConnectToChat)
    \/ \E t \in 1..MaxTransports : TransportConnect(t)
    \/ \E t \in 1..MaxTransports : TransportDisconnect(t)
    \/ AuthenticatedEvent(LocalUser)
    \/ \E newValue \in Texts : handleInputChange(newValue)
    \/ handleSend
    \/ handleBlur
    \/ \E room \in Rooms : handleRoomChange(room)
    \/ TypingTimeoutFires
    \/ InputTimePasses
    \/ Unmount

SpecTyping == Init /\ [][NextTyping]_vars

-----------------------------------------------------------------------------
(* The typing indicator of the per-room ChatProvider (part_008): the        *)
(* debounced typing:status. debounce(f, 300) runs f on the trailing edge,    *)
(* with the arguments of the last call, once 300 ms have passed with no      *)
(* call. Time passes in steps of half the wait.                              *)

DebounceStep == DEBOUNCE_WAIT \div 2

\* everything outside the typing indicator of the per-room provider
outsideDebounce == <<storeVars, connVars, lifeVars, intentVars, createOut,
                     chatState, joinCall, lastInbound, presenceVars,
                     remoteTypingVars, localTypingVars, sessionVars,
                     listenerVars, historyVars>>

\* debouncedEmitTyping(roomId, isTyping): the pending call is replaced and
\* the wait starts again
debouncedEmitTyping(roomId, typing) ==
    [roomId |-> roomId, isTyping |-> typing, wait |-> DEBOUNCE_WAIT]

\* handleTyping(roomId)
roomHandleTyping(roomId) ==
    /\ useSocketSocket # 0
    /\ chatState.activeRoom # NullRoom
    /\ debounced' = debouncedEmitTyping(roomId, TRUE)
    /\ startRequested' = startRequested \cup {roomId}
    /\ UNCHANGED <<typingStatus, sinceStart, roomOut>>
    /\ UNCHANGED outsideDebounce

\* sendMessage(roomId, content) with no attachments
roomSendMessage(roomId) ==
    /\ ProviderReady
    /\ roomOut' = roomEmit(roomOut, "message:send", roomId)
    /\ debounced' = debouncedEmitTyping(roomId, FALSE)
    /\ UNCHANGED <<typingStatus, sinceStart, startRequested>>
    /\ UNCHANGED outsideDebounce

\* the wait is over: socket?.emit('typing:status', { roomId, isTyping })
DebounceFires ==
    /\ debounced # NoDebounced
    /\ debounced.wait = 0
    /\ typingStatus' = [roomId |-> debounced.roomId, isTyping |-> debounced.isTyping]
    /\ sinceStart' = IF debounced.isTyping THEN 0 ELSE sinceStart
    /\ startRequested' = IF debounced.isTyping
                         THEN startRequested \ {debounced.roomId}
                         ELSE startRequested
    /\ debounced' = NoDebounced
    /\ UNCHANGED roomOut
    /\ UNCHANGED outsideDebounce

\* DebounceStep milliseconds pass with no call of debouncedEmitTyping
DebounceTimePasses ==
    /\ debounced # NoDebounced \/ sinceStart < DEBOUNCE_WAIT
    /\ debounced # NoDebounced => debounced.wait > 0
    /\ debounced' = IF debounced = NoDebounced
                    THEN NoDebounced
                    ELSE [debounced EXCEPT !.wait = @ - DebounceStep]
    /\ sinceStart' = IF sinceStart < DEBOUNCE_WAIT
                     THEN sinceStart + DebounceStep ELSE sinceStart
    /\ UNCHANGED <<typingStatus, startRequested, roomOut>>
    /\ UNCHANGED outsideDebounce

NextDebounce ==
    \/ (socket = 0 /\ Connect)
    \/ AuthenticatedEvent(LocalUser)
    \/ \E roomId \in Rooms : joinRoom(roomId)
    \/ \E roomId \in Rooms : roomHandleTyping(roomId)
    \/ \E roomId \in Rooms : roomSendMessage(roomId)
    \/ DebounceFires
    \/ DebounceTimePasses

SpecDebounce == Init /\ [][NextDebounce]_vars

-----------------------------------------------------------------------------
(* The intents of ChatProvider against the session: every intent leaves at  *)
(* `if (!user) return` and otherwise goes through chatAPI to emitToChat.     *)

\* the events of the intents that ChatProvider guards by the user
ChatIntents == {"join_room", "leave_room", "send_message", "mark_read",
                "typing_start", "typing_stop"}

\* an intent without the guard on the user
chatIntentUnguarded(user, trs, out, event) ==
    emitToChat(trs, out, event)

\* if (!user) return; chatAPI.<intent>(...)
chatIntent(user, trs, out, event) ==
    IF user = NoUser THEN out ELSE emitToChat(trs, out, event)

\* joinRoom, leaveRoom, sendMessage, markMessageRead, startTyping or
\* stopTyping of the context value is called
ContextIntent(event) ==
    /\ Len(chatOut) < MaxSends
    /\ chatOut' = chatIntent(authState.user, transports, chatOut, event)
    /\ UNCHANGED <<transports, socket, chatSocket, connectionState,
                   heartbeatInterval, mainOut, sendCalls, acked>>
    /\ UNCHANGED <<storeVars, lifeVars, intentVars, viewVars>>

NextChatIntent ==
    \/ (socket = 0 /\ Connect)
    \/ (chatSocket = 0 /\ ConnectToChat)
    \/ \E t \in 1..MaxTransports : TransportConnect(t)
    \/ \E t \in 1..MaxTransports : TransportDisconnect(t)
    \/ AuthenticatedEvent(LocalUser)
    \/ LoggedOutEvent
    \/ \E event \in ChatIntents : ContextIntent(event)

SpecChatIntent == Init /\ [][NextChatIntent]_vars

-----------------------------------------------------------------------------
(* The handlers ChatProvider keeps in SocketAPI (contexts/ChatContext.tsx,  *)
(* api/socket.ts).  on() stores the callback under its event name and       *)
(* attaches it to the sockets that exist at that moment; off() removes it   *)
(* from the list and from the sockets that exist then.  The effect          *)
(* registers thirteen handlers through chatAPI.on<Event> and then calls     *)
(* chatAPI.onOnlineUsers, which ChatAPI does not define: the call throws    *)
(* before the effect returns its cleanup function.                          *)

\* the events whose chatAPI.on<Event> and chatAPI.off<Event> exist
RegisteredEvents == {"new_message", "user_typing", "error"}

\* on(event, callback) for each of `events`
on(L, events) ==
    [map |-> [e \in ProviderEvents |->
                IF e \in events THEN L.map[e] + 1 ELSE L.map[e]],
     att |-> [t \in 1..MaxTransports |-> [e \in ProviderEvents |->
                IF e \in events /\ (t = socket \/ t = chatSocket)
                THEN L.att[t][e] + 1 ELSE L.att[t][e]]]]

\* off(event, callback) for each of `events`, the callback being one that
\* on() stored
off(L, events) ==
    [map |-> [e \in ProviderEvents |->
                IF e \in events /\ L.map[e] > 0 THEN L.map[e] - 1 ELSE L.map[e]],
     att |-> [t \in 1..MaxTransports |-> [e \in ProviderEvents |->
                IF e \in events /\ (t = socket \/ t = chatSocket)
                   /\ L.att[t][e] > 0
                THEN L.att[t][e] - 1 ELSE L.att[t][e]]]]

\* One run of the effect: the cleanup of the previous run if that run returned
\* one, the guard, the thirteen registrations, and the TypeError of
\* chatAPI.onOnlineUsers that ends the run without a cleanup function.
ListenerEffect(auth) ==
    LET before == [map |-> eventListeners, att |-> attached]
        cleaned == IF cleanupPending THEN off(before, RegisteredEvents)
                   ELSE before
        passes == auth.isAuthenticated /\ SocketContextIsConnected
        after == IF passes THEN on(cleaned, RegisteredEvents) ELSE cleaned
    IN /\ eventListeners' = after.map
       /\ attached' = after.att
       /\ cleanupPending' = FALSE
       /\ uncaught' = (uncaught \/ passes)
       /\ ChatProviderEffect(auth)

outsideListeners == <<roomVars, presenceVars, remoteTypingVars, inputVars,
                      sessionVars, historyVars>>

\* `authenticated` reaches handleAuthenticated and the effect runs again
ListenerAuthenticated(u) ==
    /\ providerMounted /\ ~uncaught
    /\ authState' = authReducer(authState, [type |-> "SET_USER", payload |-> u])
    /\ ListenerEffect(authState')
    /\ authPending' = FALSE
    /\ UNCHANGED <<messages, srvMsgs, srvRead, srvDelivered, nEvents>>
    /\ UNCHANGED connVars
    /\ UNCHANGED <<lifeVars, chatError, providerMounted, outsideListeners>>

\* `logged_out` reaches handleLoggedOut and the effect runs again when
\* isAuthenticated or user changed
ListenerLoggedOut ==
    /\ providerMounted /\ ~uncaught
    /\ authState' = authReducer(authState, [type |-> "LOGOUT"])
    /\ IF authState'.isAuthenticated # authState.isAuthenticated
          \/ authState'.user # authState.user
       THEN ListenerEffect(authState')
       ELSE UNCHANGED <<listening, closureMessages, eventListeners, attached,
                        cleanupPending, uncaught>>
    /\ UNCHANGED <<messages, srvMsgs, srvRead, srvDelivered, nEvents>>
    /\ UNCHANGED connVars
    /\ authToken' = FALSE
    /\ UNCHANGED <<lifeVars, authPending, chatError, providerMounted,
                   roomVars, presenceVars, remoteTypingVars, inputVars,
                   historyVars>>

\* SocketProvider renders again and the effect runs again
ListenerRender ==
    /\ providerMounted /\ ~uncaught
    /\ ListenerEffect(authState)
    /\ UNCHANGED <<messages, authState, srvMsgs, srvRead, srvDelivered, nEvents>>
    /\ UNCHANGED connVars
    /\ UNCHANGED <<lifeVars, authPending, chatError, providerMounted,
                   outsideListeners>>

\* ChatProvider unmounts (the tree is also unmounted when an effect threw):
\* the cleanup of the last run is called if that run returned one
ProviderUnmount ==
    /\ providerMounted
    /\ providerMounted' = FALSE
    /\ LET before == [map |-> eventListeners, att |-> attached]
           after == IF cleanupPending THEN off(before, RegisteredEvents)
                    ELSE before
       IN /\ eventListeners' = after.map
          /\ attached' = after.att
    /\ cleanupPending' = FALSE
    /\ UNCHANGED storeVars
    /\ UNCHANGED connVars
    /\ UNCHANGED <<lifeVars, intentVars, outsideListeners>>

NextListener ==
    \/ Connect
    \/ ConnectToChat
    \/ \E t \in 1..MaxTransports : TransportConnect(t)
    \/ \E t \in 1..MaxTransports : TransportDisconnect(t)
    \/ ListenerAuthenticated(LocalUser)
    \/ ListenerLoggedOut
    \/ ListenerRender
    \/ ProviderUnmount

SpecListener == Init /\ [][NextListener]_vars

-----------------------------------------------------------------------------
(* History of a room: loadMessages of the per-room provider (part_008) and  *)
(* the effects of the per-room ChatContainer that call it.  The server      *)
(* answers GET /api/rooms/<id>/messages?page=<n> with a page of the room's  *)
(* history and a hasMore flag.  The infinite scroll effect observes         *)
(* lastMessageRef.current, and no element is ever given that ref: its       *)
(* handleObserver is never called, so the initial load effect is the only   *)
(* caller of loadMessages in ChatContainer, and `page`, which only          *)
(* handleObserver raises, stays 1.                                          *)

\* server: the history of each room, oldest page first
History(r) == IF r = "r1" THEN <<"h1", "h2">> ELSE <<>>

\* server: data.messages of page p of room r
PageOf(r, p) ==
    LET first == (p - 1) * PageSize + 1
        last == IF p * PageSize < Len(History(r)) THEN p * PageSize
                ELSE Len(History(r))
    IN SubSeq(History(r), first, last)

\* server: data.hasMore of page p of room r
HasMoreAfter(r, p) == p * PageSize < Len(History(r))

\* a call of loadMessages(roomId, page) up to its await: the request, and the
\* state.messages[roomId] || [] of the render whose loadMessages was called
loadMessagesCall(state, roomId, page, caller) ==
    [roomId |-> roomId, page |-> page, closure |-> state.messages[roomId],
     caller |-> caller]

\* the rest of loadMessages once the response is there: SET_MESSAGES with
\* page === 1 ? data.messages : [...closure, ...data.messages]
loadMessagesResponse(state, call) ==
    chatReducer(state,
        [type |-> "SET_MESSAGES",
         payload |-> [roomId |-> call.roomId,
                      messages |-> IF call.page = 1
                                   THEN PageOf(call.roomId, call.page)
                                   ELSE call.closure
                                        \o PageOf(call.roomId, call.page)]])

RemoveAt(seq, i) == SubSeq(seq, 1, i - 1) \o SubSeq(seq, i + 1, Len(seq))

\* activeRoom.id as ChatContainer reads it, taken to be the id of the room
\* that joinRoom made active
ActiveRoomId == chatState.activeRoom.id

\* a dependency of the initial load effect changed since it last ran:
\* activeRoom, or loadMessages, which useCallback renews with state.messages
LoadEffectDue ==
    \/ loadDeps.activeRoom # chatState.activeRoom
    \/ loadDeps.messages # chatState.messages
    \/ ~loadDeps.current

outsideHistory == <<storeVars, connVars, lifeVars, intentVars, createOut,
                    roomOut, joinCall, lastInbound, presenceVars,
                    remoteTypingVars, inputVars, sessionVars, listenerVars>>

\* ChatContainer, "Load initial messages": setIsLoading(true) and
\* loadMessages(activeRoom.id) when there is an active room
InitialLoadEffect ==
    /\ LoadEffectDue
    /\ chatState.activeRoom # NullRoom => nFetches < MaxFetches
    /\ loadDeps' = [activeRoom |-> chatState.activeRoom,
                    messages |-> chatState.messages, current |-> TRUE]
    /\ IF chatState.activeRoom # NullRoom
       THEN /\ isLoading' = TRUE
            /\ fetches' = Append(fetches,
                            loadMessagesCall(chatState, ActiveRoomId, 1, "container"))
            /\ nFetches' = nFetches + 1
       ELSE UNCHANGED <<isLoading, fetches, nFetches>>
    /\ UNCHANGED <<hasMore, loadedPage, chatState>>
    /\ UNCHANGED outsideHistory

\* loadMessages(roomId, page) of the context value, called by a consumer
\* other than the effects of ChatContainer
loadMessages(roomId, page) ==
    /\ nFetches < MaxFetches
    /\ fetches' = Append(fetches, loadMessagesCall(chatState, roomId, page, "context"))
    /\ nFetches' = nFetches + 1
    /\ UNCHANGED <<isLoading, hasMore, loadDeps, loadedPage, chatState>>
    /\ UNCHANGED outsideHistory

\* the response of a pending call arrives: loadMessages dispatches and
\* returns data; for a call of the effect, .then sets hasMore (and page) and
\* .finally clears isLoading
FetchResolves(i) ==
    /\ i \in 1..Len(fetches)
    /\ chatState' = loadMessagesResponse(chatState, fetches[i])
    /\ fetches' = RemoveAt(fetches, i)
    /\ loadDeps' = [loadDeps EXCEPT !.current = FALSE]
    /\ IF fetches[i].caller = "container"
       THEN /\ hasMore' = HasMoreAfter(fetches[i].roomId, fetches[i].page)
            /\ isLoading' = FALSE
            /\ loadedPage' = fetches[i].page
       ELSE UNCHANGED <<hasMore, isLoading, loadedPage>>
    /\ UNCHANGED nFetches
    /\ UNCHANGED outsideHistory

\* the request of a pending call fails: loadMessages logs and throws again;
\* for a call of the effect, .finally clears isLoading
FetchRejects(i) ==
    /\ i \in 1..Len(fetches)
    /\ fetches' = RemoveAt(fetches, i)
    /\ isLoading' = IF fetches[i].caller = "container" THEN FALSE ELSE isLoading
    /\ UNCHANGED <<hasMore, nFetches, loadDeps, loadedPage, chatState>>
    /\ UNCHANGED outsideHistory

\* the provider and ChatContainer over one connection and one joinRoom,
\* with the calls ChatContainer makes
NextPaging ==
    \/ (socket = 0 /\ Connect)
    \/ AuthenticatedEvent(LocalUser)
    \/ \E r \in Rooms : (chatState.activeRoom = NullRoom /\ joinRoom(r))
    \/ \E id \in InboundIds : MessageNewEvent(id)
    \/ InitialLoadEffect
    \/ \E i \in 1..MaxFetches : FetchResolves(i)
    \/ \E i \in 1..MaxFetches : FetchRejects(i)

SpecPaging == Init /\ [][NextPaging]_vars

\* the same, with loadMessages also called for any room and page
NextHistory ==
    \/ NextPaging
    \/ \E r \in Rooms, p \in 1..MaxPage : loadMessages(r, p)

SpecHistory == Init /\ [][NextHistory]_vars

-----------------------------------------------------------------------------
(* Properties of the message ledger *)

InLedger(msgs, id) == \E i \in 1..Len(msgs) : msgs[i].message_id = id

\* the users recorded as readers of message id, over every entry that carries id
ReadBySet(msgs, id) ==
    UNION {Range(msgs[i].read_by) : i \in {j \in 1..Len(msgs) : msgs[j].message_id = id}}

DeliveredToSet(msgs, id) ==
    UNION {Range(msgs[i].delivered_to) :
              i \in {j \in 1..Len(msgs) : msgs[j].message_id = id}}

Occurrences(s, x) == Cardinality({i \in 1..Len(s) : s[i] = x})

\* (timestamp, id) of a precedes or equals that of b
KeyLeq(a, b) ==
    \/ a.timestamp < b.timestamp
    \/ /\ a.timestamp = b.timestamp
       /\ \E i, j \in 1..Len(MessageOrder) :
             i <= j /\ MessageOrder[i] = a.message_id /\ MessageOrder[j] = b.message_id

\* C1: receipt sets only grow. Across every step, a message that stays in the
\* ledger keeps every user id already recorded in its read_by and in its
\* delivered_to.
C1_ReceiptsOnlyGrow ==
    [][\A id \in MessageIds :
          (InLedger(messages, id) /\ InLedger(messages', id)) =>
              /\ ReadBySet(messages, id) \subseteq ReadBySet(messages', id)
              /\ DeliveredToSet(messages, id) \subseteq DeliveredToSet(messages', id)]_vars

\* C2: a new_message whose id is already in the ledger leaves the ledger
\* unchanged (same entries, same length).
C2_DuplicateNewMessageIsNoOp ==
    [][\A id \in MessageIds :
          (NewMessageEvent(id) /\ InLedger(messages, id)) => messages' = messages]_vars

NoRepeatedId(msgs) ==
    \A i, j \in 1..Len(msgs) : i # j => msgs[i].message_id # msgs[j].message_id

\* C3: in every reachable state no two entries of the ledger carry the same
\* message id.
C3_UniqueMessageIds == NoRepeatedId(messages)

C7_ReceiptOrderIndependent ==
    listening =>
        \A id \in MessageIds, u1, u2 \in UserIds :
            (InLedger(messages, id) /\ u1 # u2) =>
                LET d1 == [message_id |-> id, user_id |-> u1]
                    d2 == [message_id |-> id, user_id |-> u2]
                    r12 == handleMessageRead(
                               handleMessageRead(messages, closureMessages, d1),
                               closureMessages, d2)
                    r21 == handleMessageRead(
                               handleMessageRead(messages, closureMessages, d2),
                               closureMessages, d1)
                    v12 == handleMessageDelivered(
                               handleMessageDelivered(messages, closureMessages, d1),
                               closureMessages, d2)
                    v21 == handleMessageDelivered(
                               handleMessageDelivered(messages, closureMessages, d2),
                               closureMessages, d1)
                IN  /\ ReadBySet(r12, id) = ReadBySet(r21, id)
                    /\ {u1, u2} \subseteq ReadBySet(r12, id)
                    /\ DeliveredToSet(v12, id) = DeliveredToSet(v21, id)
                    /\ {u1, u2} \subseteq DeliveredToSet(v12, id)

SortedOldestFirst(msgs) ==
    \A i, j \in 1..Len(msgs) : i < j => KeyLeq(msgs[i], msgs[j])

SortedNewestFirst(msgs) ==
    \A i, j \in 1..Len(msgs) : i < j => KeyLeq(msgs[j], msgs[i])

\* C8: in every reachable state, whatever new_message events and history
\* loads came before and in whatever order, the stored sequence of the ledger
\* is sorted by (timestamp, id): oldest first or newest first. The property is
\* stated for the ledgers that repeat no id, so that it stands apart from C3.
C8_LedgerSorted ==
    NoRepeatedId(messages) =>
        SortedOldestFirst(messages) \/ SortedNewestFirst(messages)

-----------------------------------------------------------------------------
(* Properties of sending and of the connection *)

\* the ledger entries the client inserted for its own sends: entries whose id
\* the server did not assign (optimistic or failed entries)
LocalEntries(msgs) == {i \in 1..Len(msgs) : msgs[i].message_id \notin MessageIds}

\* the ledger entries that carry the final id
FinalEntries(msgs, id) == {i \in 1..Len(msgs) : msgs[i].message_id = id}

\* C4: a sendMessage made while the chat channel is connected puts exactly one
\* optimistic entry for that send into the store at once, and when the server
\* answers message_sent the store holds exactly one entry for the send, under
\* its final id, and no optimistic entry any more.
C4_OptimisticSendThenReplace ==
    [][/\ (sendMessage /\ ChatSocketConnected(transports)) =>
              Cardinality(LocalEntries(messages')) =
                  Cardinality(LocalEntries(messages)) + 1
       /\ MessageSentEvent =>
              /\ \E id \in MessageIds : Cardinality(FinalEntries(messages', id)) = 1
              /\ LocalEntries(messages') = {}]_vars

\* C5: a send made while the chat channel is disconnected is neither lost nor
\* duplicated: every sendMessage call is either on the wire, once, or held in
\* the ledger as an entry of its own (pending, later final or failed).
C5_SendNeitherLostNorDuplicated ==
    /\ Len(chatOut) <= sendCalls
    /\ sendCalls <= Len(chatOut) + Cardinality(LocalEntries(messages))

\* the state of the main channel as the connection state machine names it
ConnState ==
    IF connectionState.isConnected THEN "Connected"
    ELSE IF connectionState.isConnecting THEN "Connecting"
    ELSE "Disconnected"

SpecifiedTransitions ==
    {<<"Disconnected", "Connecting">>, <<"Connecting", "Connected">>,
     <<"Connected", "Reconnecting">>, <<"Reconnecting", "Connected">>,
     <<"Reconnecting", "Disconnected">>}

\* C9: a connect() call made while the main channel is Connected is a no-op (no
\* new transport, no new handlers, connection state unchanged), and the promise
\* of a connect() call, once settled, is never settled again.
C9_ConnectWhileConnectedIsNoOp ==
    [][/\ (Connect /\ connectionState.isConnected) =>
              UNCHANGED <<transports, socket, connectionState>>
       /\ \A t \in 1..Len(transports) :
              transports[t].promise # "pending" =>
                  transports'[t].promise = transports[t].promise]_vars

\* C10: the connection state changes only along the specified transitions
\* (Disconnected -> Connecting -> Connected, Connected -> Reconnecting on a
\* drop, Reconnecting -> Connected or Disconnected), or to Disconnected by an
\* explicit disconnect().
C10_OnlySpecifiedTransitions ==
    [][\/ ConnState' = ConnState
       \/ <<ConnState, ConnState'>> \in SpecifiedTransitions
       \/ (Disconnect /\ ConnState' = "Disconnected")]_vars

-----------------------------------------------------------------------------
(* Properties of disconnect(), of the connect() promise and of reconnection *)

\* C11: explicit disconnect is terminal. Once disconnect() has returned (no
\* current main socket, state Disconnected, no heartbeat timer), every step
\* other than a connect() call leaves the state Disconnected and the heartbeat
\* timer cancelled, whatever the transports report.
C11_DisconnectIsTerminal ==
    [][(/\ socket = 0
        /\ ConnState = "Disconnected"
        /\ ~heartbeatInterval
        /\ ~Connect)
          => (ConnState' = "Disconnected" /\ ~heartbeatInterval')]_vars

\* C14: every connect() call can still settle. A promise that is pending
\* belongs to a socket that can still report connect or an error, that is, to
\* a socket that has not been closed.
C14_PendingPromiseCanSettle ==
    \A t \in 1..Len(transports) :
        (transports[t].ns = "main" /\ transports[t].promise = "pending") => Live(t)

\* C16: re-authentication on reconnection. When the main socket that had been
\* connected before reports connect again while a user is signed in, the client
\* puts authenticate on the main wire.
C16_ReauthenticateOnReconnect ==
    [][\A t \in 1..Len(transports) :
          (/\ TransportConnect(t)
           /\ transports[t].ns = "main"
           /\ transports[t].promise = "resolved"
           /\ authState.user # NoUser)
             => mainOut' = "authenticate"]_vars

-----------------------------------------------------------------------------
(* Properties of the heartbeat, of the retry budget and of the published state *)

\* C12: a silent connection is declared dead. When two heartbeat intervals
\* have elapsed without anything received on the main channel, the state is
\* Reconnecting, whether or not the transport has reported a disconnect.
C12_SilentConnectionDeclaredDead ==
    missed >= 2 => ConnState = "Reconnecting"

\* C13: the retry budget. A connection error is surfaced (error field set,
\* state no longer Connecting) only when the attempts the budget allows have
\* all failed; a failed attempt within the budget leaves the state Connecting.
C13_ErrorOnlyAfterRetryBudget ==
    [][\A t \in 1..Len(transports) :
          (ConnectErrorReported(t) /\ connectionState'.error # "null")
              => attempts' >= reconnectionAttempts]_vars

\* C15: the published connection state tracks the actual one. After a main
\* socket created by connect() reports connect, the state SocketProvider
\* publishes shows isConnected = TRUE; after it reports disconnect, the
\* published state shows isConnected = FALSE.
C15_PublishedStateTracksTransport ==
    [][\A t \in 1..Len(transports) :
          /\ ConnectReported(t) => published'.isConnected
          /\ DisconnectReported(t) => ~published'.isConnected]_vars

-----------------------------------------------------------------------------
(* Properties of authentication *)

C18_AuthenticateSendsAndLoadingEnds ==
    [][/\ authenticate => (mainOut' = "authenticate" /\ authPending')
       /\ authState'.isLoading => authPending']_vars

-----------------------------------------------------------------------------
(* Properties of the intents *)

\* C19: no intent is silently swallowed. A send intent issued in any
\* connection state either is applied (the event goes out on the chat wire or
\* the ledger changes) or surfaces an error in an error field.
C19_NoIntentSilentlySwallowed ==
    [][sendMessage =>
          \/ chatOut' # chatOut
          \/ messages' # messages
          \/ chatError' # chatError
          \/ authState'.error # authState.error
          \/ connectionState'.error # connectionState.error]_vars

\* C20: validation short-circuits locally. A sendMessage whose content fails
\* validation, and a login whose form fails validation, emit nothing on either
\* channel and put the first validation error into the error field (of the
\* chat store, of the auth state); a sendMessage with valid content is
\* emitted when the chat channel is connected and clears the error field.
C20_ValidationShortCircuits ==
    [][/\ \A content \in Contents :
             useChatSendMessage(content) =>
                IF validateMessage(content) # <<>>
                THEN /\ chatOut' = chatOut
                     /\ mainOut' = mainOut
                     /\ chatError' = validateMessage(content)[1]
                ELSE /\ chatError' = "null"
                     /\ ChatSocketConnected(transports) =>
                            chatOut' = Append(chatOut, "send_message")
       /\ \A data \in LoginForms :
             (useAuthLogin(data) /\ validateLoginForm(data) # <<>>) =>
                /\ chatOut' = chatOut
                /\ mainOut' = mainOut
                /\ authState'.error = validateLoginForm(data)[1]]_vars

-----------------------------------------------------------------------------
(* Properties of room management *)

\* C21: createRoom validates the room name before emission. A name that is
\* empty, longer than 50 characters or outside the allowed character set is
\* never carried by a create_room event.
C21_InvalidRoomNameNeverEmitted ==
    \A name \in createOut : validateRoomName(name) = <<>>

-----------------------------------------------------------------------------
(* Properties of presence and of typing *)

\* C25: presence is rebuilt by snapshots and patched by deltas. After a
\* snapshot, a user_offline for u leaves an entry for u in the presence set,
\* marked offline, whose last_seen is the one the delta carried; the other
\* users of the snapshot stay online.
C25_OfflineDeltaKeepsEntryWithLastSeen ==
    \A u \in UserIds :
        offlineSince[u] # 0 =>
            \E i \in 1..Len(onlineUsers) :
                /\ onlineUsers[i].user_id = u
                /\ ~onlineUsers[i].is_online
                /\ onlineUsers[i].last_seen = offlineSince[u]

\* C26: a remote typing entry expires on its own. Once more than the expiry
\* window (5 s) has passed since the user_typing start of (user, room), with
\* no later stop or activity, the entry is no longer in the typing list.
C26_RemoteTypingEntryExpires ==
    \A u \in UserIds, r \in Rooms :
        FindTypingUser(typingUsers, u, r) # 0 => typingAge[u][r] <= TYPING_TIMEOUT

\* C27: when the auto-stop timer runs that startTyping(roomId) set as it put
\* typing_start for the room on the wire, exactly one typing_stop is put on
\* the wire, for that room, and no timer stays pending
C27_AutoStopEmitsOneTypingStop ==
    [][TypingTimeoutFires /\ typingOnWire[typingTimeoutRef.room] =>
          /\ chatOut' = Append(chatOut, "typing_stop")
          /\ ~typingOnWire'[typingTimeoutRef.room]
          /\ typingTimeoutRef' = NoTimeout]_vars

\* C28: a typing_stop is put on the wire by the auto-stop timer only after a
\* full timeout without a change of the input
C28_TypingRefreshesAutoStop ==
    [][TypingTimeoutFires => keyAge >= TYPING_TIMEOUT]_vars

\* C29: after a send, a blur or a room change, no room is left with a
\* typing_start on the wire that no typing_stop has followed
C29_TypingStartIsMatched ==
    [][(handleSend \/ handleBlur \/ \E room \in Rooms : handleRoomChange(room)) =>
          \A r \in Rooms : ~typingOnWire'[r]]_vars

OtherTypingEntries(users, userId, roomId) ==
    SelectSeq(users, LAMBDA e : ~(e.user_id = userId /\ e.room_id = roomId))

\* C40: the typing list holds at most one entry per (user id, room id). A
\* user_typing start for a pair already listed replaces its entry in place, a
\* start for a new pair adds one entry, a stop for (u, r) removes the entry of
\* (u, r), and either leaves every other entry as it was, in the same order.
C40_TypingSetOneEntryPerPair ==
    /\ [](\A u \in UserIds, r \in Rooms :
             Cardinality({i \in 1..Len(typingUsers) :
                 typingUsers[i].user_id = u /\ typingUsers[i].room_id = r}) <= 1)
    /\ [][\A u \in UserIds, r \in Rooms, b \in BOOLEAN :
             UserTypingEvent(u, r, b) =>
                /\ (FindTypingUser(typingUsers', u, r) # 0) = b
                /\ b /\ FindTypingUser(typingUsers, u, r) # 0 =>
                      FindTypingUser(typingUsers', u, r) = FindTypingUser(typingUsers, u, r)
                /\ OtherTypingEntries(typingUsers', u, r) = OtherTypingEntries(typingUsers, u, r)]_vars

\* the first entry has had a user_typing start after the second one's last
\* event and is still first: it was replaced in place
C40_Witness ==
    /\ Len(typingUsers) = 2
    /\ typingAge[typingUsers[1].user_id][typingUsers[1].room_id] = 0
    /\ typingAge[typingUsers[2].user_id][typingUsers[2].room_id] > 0

-----------------------------------------------------------------------------
(* Further properties of the ledger, the session and the connection *)

\* after is before with nothing changed but the field `field` of the entries
\* that carry id
OnlyFieldOfIdChanged(before, after, id, field) ==
    /\ Len(after) = Len(before)
    /\ \A i \in 1..Len(before) :
          /\ DOMAIN after[i] = DOMAIN before[i]
          /\ \A f \in DOMAIN before[i] :
                (before[i].message_id # id \/ f # field) => after[i][f] = before[i][f]

\* C39: a receipt changes only its target. message_read (message_delivered)
\* for message id m changes only read_by (delivered_to) of the entries with id
\* m: every other entry, every other field, the length and the order of the
\* ledger stay, and a receipt for an id that is not in the ledger leaves the
\* ledger unchanged.
C39_ReceiptChangesOnlyItsTarget ==
    /\ [][\A id \in MessageIds, u \in UserIds :
             /\ MessageReadEvent(id, u) =>
                   OnlyFieldOfIdChanged(messages, messages', id, "read_by")
             /\ MessageDeliveredEvent(id, u) =>
                   OnlyFieldOfIdChanged(messages, messages', id, "delivered_to")]_vars
    /\ [](\A id \in MessageIds, u \in UserIds :
             ~InLedger(messages, id) =>
                LET data == [message_id |-> id, user_id |-> u]
                IN  /\ handleMessageRead(messages, closureMessages, data) = messages
                    /\ handleMessageDelivered(messages, closureMessages, data) = messages)

\* a receipt has been applied to one entry of a ledger of several, and some
\* message is not in the ledger
C39_Witness ==
    /\ Len(messages) >= 2
    /\ \E i, j \in 1..Len(messages) :
          /\ messages[i].message_id # messages[j].message_id
          /\ messages[i].read_by # <<>>
          /\ messages[j].read_by = <<>>
          /\ srvRead[messages[j].message_id] = {}
    /\ \E id \in MessageIds : ~InLedger(messages, id)

C34_IntentsOnlyWithUser ==
    [][chatOut' # chatOut =>
          authState.user # NoUser /\ authState.isAuthenticated]_vars

\* an intent was emitted, the user has logged out since, and the chat channel
\* is still connected
C34_Witness ==
    /\ chatOut # <<>>
    /\ authState.user = NoUser
    /\ ChatSocketConnected(transports)

\* C36: in every reachable state of the socket API, isConnected and
\* isConnecting are not both true
C36_NotConnectedAndConnecting ==
    ~(connectionState.isConnected /\ connectionState.isConnecting)

\* C37: at most one live transport per channel. Every transport the API has
\* created and not closed is the one it references for its channel.
C37_OneLiveTransportPerChannel ==
    \A t \in 1..Len(transports) :
        Live(t) => (t = socket \/ t = chatSocket)

\* C38: whatever setup and cleanup cycles of the ChatProvider effect have run,
\* SocketAPI holds at most one handler of the provider for each inbound event
\* name, and none once the provider is unmounted.
C38_ListenersBalanced ==
    /\ \A e \in ProviderEvents : eventListeners[e] <= 1
    /\ ~providerMounted => \A e \in ProviderEvents : eventListeners[e] = 0

\* the ids held by the ledger of room r
LedgerIds(state, r) == Range(state.messages[r])

\* C31: applying a page response keeps every message the room's ledger held,
\* and no ledger ever holds a message of the history twice.
C31_PagesMergedWithoutLoss ==
    /\ [](\A r \in Rooms : \A j, k \in 1..Len(chatState.messages[r]) :
            (/\ chatState.messages[r][j] \in Range(History(r))
             /\ chatState.messages[r][j] = chatState.messages[r][k]) => j = k)
    /\ [][\A i \in 1..Len(fetches) : FetchResolves(i) =>
            LedgerIds(chatState, fetches[i].roomId)
                \subseteq LedgerIds(chatState', fetches[i].roomId)]_vars

====
